---- MODULE Spec2Model ----
(***************************************************************************)
(* Model of the calculation layer of tanihitung: the zod input schemas of  *)
(* the five formulas (schema.ts), the dispatcher calculate and its         *)
(* companion validateCalculationInputs (handlers/calculations.ts).         *)
(*                                                                         *)
(* JavaScript values are tagged records.  A finite number is an exact      *)
(* fraction num/den in lowest terms (den > 0); +Infinity and -Infinity are *)
(* num = 1 / -1 with den = 0; NaN, null, undefined and strings have their  *)
(* own tags.  Strings are TLA+ strings, so messages are compared and       *)
(* searched character by character.                                        *)
(***************************************************************************)
EXTENDS Integers, Sequences, FiniteSets, TLC

VARIABLES formulaKey, inputs, calcOutcome, validateOutcome

\* handlers/validation.ts: the value handed to a validator, the validator
\* called, what it gave, and what it gave when applied to its own result
VARIABLES arg, called, outcome, again

\* handlers/results.ts: what generateInputSummary(formulaKey, inputs) gave
VARIABLES summaryOutcome, locale
VARIABLES users, calculators, results, nextResultId, clock, reply

\* the seed functions: the run in progress and where it stands
VARIABLES seed

calcVars == <<formulaKey, inputs, calcOutcome, validateOutcome>>
validatorVars == <<arg, called, outcome, again>>
summaryVars == <<summaryOutcome, locale>>
resultsVars == <<users, calculators, results, nextResultId, clock, reply>>

appVars == <<seed>>

\* the request the server is answering; the calculator page of the client
VARIABLES request, page

webVars == <<request, page>>

vars == <<calcVars, validatorVars, summaryVars, resultsVars, appVars, webVars>>

-----------------------------------------------------------------------------
(* Bounds of the explored input space *)

MaxNum == 3
MaxDen == 2

-----------------------------------------------------------------------------
(* JavaScript values *)

Undefined == [k |-> "undefined", num |-> 0, den |-> 1, s |-> ""]
Null == [k |-> "null", num |-> 0, den |-> 1, s |-> ""]
NaN == [k |-> "nan", num |-> 0, den |-> 1, s |-> ""]
Str(t) == [k |-> "string", num |-> 0, den |-> 1, s |-> t]

Abs(n) == IF n < 0 THEN 0 - n ELSE n
Sign(n) == IF n < 0 THEN 0 - 1 ELSE IF n = 0 THEN 0 ELSE 1

RECURSIVE GCD(_, _)
GCD(a, b) == IF b = 0 THEN a ELSE GCD(b, a % b)

\* the number n/d (d > 0) in lowest terms
Num(n, d) ==
    LET g == GCD(Abs(n), d)
    IN  [k |-> "number", num |-> n \div g, den |-> d \div g, s |-> ""]

\* +Infinity (sign 1) or -Infinity (sign -1)
Infinity(sign) == [k |-> "number", num |-> sign, den |-> 0, s |-> ""]

IsFinite(v) == v.k = "number" /\ v.den # 0

\* Number.isInteger
IsInteger(v) == v.k = "number" /\ v.den = 1

\* the comparison v > 0 / v <= 0 on a value of type number
GreaterThanZero(v) == v.k = "number" /\ v.num > 0
LessOrEqualZero(v) == v.k = "number" /\ v.num <= 0

\* truthiness of a value, as tested by if (v)
Truthy(v) ==
    CASE v.k = "undefined" -> FALSE
      [] v.k = "null" -> FALSE
      [] v.k = "nan" -> FALSE
      [] v.k = "number" -> v.num # 0
      [] v.k = "string" -> v.s # ""
      [] OTHER -> TRUE

\* (mutant) the formula adds its factors instead of multiplying them
JsMul_AsSum(a, b) ==
    IF a.k = "nan" \/ b.k = "nan" THEN NaN
    ELSE IF a.den = 0 \/ b.den = 0 THEN Infinity(1)
    ELSE Num(a.num * b.den + b.num * a.den, a.den * b.den)

\* a * b on numbers (IEEE rounding is not modelled: finite products are exact)
JsMul(a, b) ==
    IF a.k = "nan" \/ b.k = "nan" THEN NaN
    ELSE IF a.den = 0 \/ b.den = 0
         THEN IF a.num = 0 \/ b.num = 0 THEN NaN
              ELSE Infinity(Sign(a.num) * Sign(b.num))
    ELSE Num(a.num * b.num, a.den * b.den)

\* a / b on numbers
JsDiv(a, b) ==
    IF a.k = "nan" \/ b.k = "nan" THEN NaN
    ELSE IF a.den = 0 /\ b.den = 0 THEN NaN
    ELSE IF a.den = 0 THEN Infinity(Sign(a.num) * (IF b.num < 0 THEN 0 - 1 ELSE 1))
    ELSE IF b.den = 0 THEN Num(0, 1)
    ELSE IF b.num = 0
         THEN IF a.num = 0 THEN NaN ELSE Infinity(Sign(a.num))
    ELSE Num(Sign(b.num) * a.num * b.den, a.den * Abs(b.num))

-----------------------------------------------------------------------------
(* Strings *)

Contains(str, sub) ==
    \E i \in 1..(Len(str) - Len(sub) + 1) : SubSeq(str, i, i + Len(sub) - 1) = sub

-----------------------------------------------------------------------------
(* Errors and outcomes of a call *)

Returned(v) == [status |-> "returned", value |-> v]
Thrown(e) == [status |-> "thrown", error |-> e]
NotCalled == [status |-> "none"]

\* new Error(message)
PlainError(message) == [name |-> "Error", message |-> message, issues |-> <<>>]

\* one zod issue: its code, the field it is about and its message
Issue(code, path, message) == [code |-> code, path |-> path, message |-> message]

IssueJson(issue) ==
    "{\"code\":\"" \o issue.code \o "\",\"message\":\"" \o issue.message
        \o "\",\"path\":[\"" \o issue.path \o "\"]}"

RECURSIVE IssuesJson(_)
IssuesJson(issues) ==
    IF issues = <<>> THEN ""
    ELSE IF Len(issues) = 1 THEN IssueJson(Head(issues))
    ELSE IssueJson(Head(issues)) \o "," \o IssuesJson(Tail(issues))

\* new ZodError(issues); its message is the JSON text of all its issues
ZodError(issues) ==
    [name |-> "ZodError", message |-> "[" \o IssuesJson(issues) \o "]", issues |-> issues]

-----------------------------------------------------------------------------
(* zod: z.number() with its checks, .default(), .optional(), z.object() *)

\* the type zod sees: NaN is its own type, +-Infinity is a number
ParsedType(v) == v.k

InvalidTypeMessage(received) ==
    IF received = "undefined" THEN "Required"
    ELSE "Expected number, received " \o received

\* (mutant) the .int() check is left out of the schema
IntCheck_LeftOut(v, field) == <<>>

\* the .int() check
IntCheck(v, field) ==
    IF field.int /\ ~IsInteger(v)
    THEN <<Issue("invalid_type", field.name, "Expected integer, received float")>>
    ELSE <<>>

\* (mutant) .nonnegative() in place of .positive(): zero passes
PositiveCheck_ZeroAllowed(v, field) ==
    IF v.k = "number" /\ v.num < 0
    THEN <<Issue("too_small", field.name, field.message)>>
    ELSE <<>>

\* the .positive(message) check
PositiveCheck(v, field) ==
    IF LessOrEqualZero(v)
    THEN <<Issue("too_small", field.name, field.message)>>
    ELSE <<>>

\* (mutant) z.coerce.number(): a string is converted with Number() first
ZodNumber_Coercing(v, field) ==
    LET coerced == IF v.k = "string"
                   THEN (IF v.s = " 2 " THEN Num(2, 1) ELSE NaN)
                   ELSE v
    IN  IF ParsedType(coerced) # "number"
        THEN <<Issue("invalid_type", field.name, InvalidTypeMessage(ParsedType(coerced)))>>
        ELSE IntCheck(coerced, field) \o PositiveCheck(coerced, field)

\* z.number().int()?.positive(msg): the issues of one value; a value of the
\* wrong type fails at once, a number runs every check
ZodNumber(v, field) ==
    IF ParsedType(v) # "number"
    THEN <<Issue("invalid_type", field.name, InvalidTypeMessage(ParsedType(v)))>>
    ELSE IntCheck(v, field) \o PositiveCheck(v, field)

\* (mutant) the .default() is left out of the schema
ZodDefault_LeftOut(v, field) == v

\* .default(d): an undefined value is replaced by d before the inner parse
ZodDefault(v, field) ==
    IF field.wrap = "default" /\ ParsedType(v) = "undefined" THEN field.dflt ELSE v

\* (mutant) an invalid optional field is dropped instead of reported
ZodField_InvalidOptionalDropped(v, field) ==
    IF field.wrap = "optional" THEN <<>>
    ELSE ZodNumber(ZodDefault(v, field), field)

\* the issues of one field of the object: .optional() lets undefined through
ZodField(v, field) ==
    IF field.wrap = "optional" /\ ParsedType(v) = "undefined" THEN <<>>
    ELSE ZodNumber(ZodDefault(v, field), field)

\* (mutant) the object parse stops at the first field that has an issue
RECURSIVE ZodObjectIssues_FailFast(_, _)
ZodObjectIssues_FailFast(shape, in) ==
    IF shape = <<>> THEN <<>>
    ELSE IF ZodField(in[Head(shape).name], Head(shape)) # <<>>
         THEN ZodField(in[Head(shape).name], Head(shape))
    ELSE ZodObjectIssues_FailFast(Tail(shape), in)

\* z.object(shape): every field is parsed, in the order of the shape, and the
\* issues of all of them are collected
RECURSIVE ZodObjectIssues(_, _)
ZodObjectIssues(shape, in) ==
    IF shape = <<>> THEN <<>>
    ELSE ZodField(in[Head(shape).name], Head(shape)) \o ZodObjectIssues(Tail(shape), in)

ShapeNames(shape) == {shape[i].name : i \in 1..Len(shape)}

ShapeField(shape, name) == CHOOSE f \in {shape[i] : i \in 1..Len(shape)} : f.name = name

\* schema.parse(in): throws a ZodError with all issues, or returns a new
\* object holding the fields of the shape only, defaults applied
ZodParse(shape, in) ==
    LET issues == ZodObjectIssues(shape, in)
    IN  IF issues # <<>> THEN Thrown(ZodError(issues))
        ELSE Returned([n \in ShapeNames(shape) |-> ZodDefault(in[n], ShapeField(shape, n))])

\* one entry of a shape: z.number()[.int()].positive(message)[.default(dflt) | .optional()]
Field(name, message, int, wrap, dflt) ==
    [name |-> name, message |-> message, int |-> int, wrap |-> wrap, dflt |-> dflt]

fertilizerCalculationInputSchema ==
    << Field("area_ha", "Area must be greater than 0", FALSE, "none", Undefined),
       Field("dose_kg_per_ha", "Dose must be greater than 0", FALSE, "default", Num(100, 1)) >>

chickenFeedCalculationInputSchema ==
    << Field("chicken_count", "Chicken count must be greater than 0", TRUE, "none", Undefined),
       Field("feed_kg_per_chicken_per_day", "Feed amount must be greater than 0", FALSE, "default", Num(12, 100)) >>

livestockMedicineCalculationInputSchema ==
    << Field("weight_kg", "Weight must be greater than 0", FALSE, "none", Undefined),
       Field("dose_mg_per_kg", "Dose must be greater than 0", FALSE, "none", Undefined),
       Field("concentration_mg_per_ml", "Concentration must be greater than 0", FALSE, "optional", Undefined) >>

harvestEstimationCalculationInputSchema ==
    << Field("area_ha", "Area must be greater than 0", FALSE, "none", Undefined),
       Field("yield_ton_per_ha", "Yield must be greater than 0", FALSE, "default", Num(5, 1)) >>

plantingCostCalculationInputSchema ==
    << Field("area_ha", "Area must be greater than 0", FALSE, "none", Undefined),
       Field("cost_rp_per_ha", "Cost must be greater than 0", FALSE, "default", Num(1000000, 1)) >>

-----------------------------------------------------------------------------
(* handlers/calculations.ts *)

KnownKeys ==
    {"fertilizer-requirement", "chicken-feed-daily", "livestock-medicine-dosage",
     "harvest-estimation", "planting-cost"}

\* { result_value, unit_label } without additional_info
Result(result_value, unit_label) ==
    [result_value |-> result_value, unit_label |-> unit_label]

\* { result_value, unit_label, additional_info: { volume_ml } }
ResultWithVolume(result_value, unit_label, volume_ml) ==
    [result_value |-> result_value, unit_label |-> unit_label,
     additional_info |-> [volume_ml |-> volume_ml]]

calculateFertilizerRequirement(in) ==
    LET parsed == ZodParse(fertilizerCalculationInputSchema, in)
    IN  IF parsed.status = "thrown" THEN parsed
        ELSE LET validatedInputs == parsed.value
             IN  Returned(Result(JsMul(validatedInputs.area_ha,
                                       validatedInputs.dose_kg_per_ha), "kg"))

calculateChickenFeedDaily(in) ==
    LET parsed == ZodParse(chickenFeedCalculationInputSchema, in)
    IN  IF parsed.status = "thrown" THEN parsed
        ELSE LET validatedInputs == parsed.value
             IN  Returned(Result(JsMul(validatedInputs.chicken_count,
                                       validatedInputs.feed_kg_per_chicken_per_day),
                                 "kg/day"))

\* (mutant) the volume is attached whether or not a concentration was given
calculateLivestockMedicineDosage_VolumeAlways(in) ==
    LET parsed == ZodParse(livestockMedicineCalculationInputSchema, in)
    IN  IF parsed.status = "thrown" THEN parsed
        ELSE LET validatedInputs == parsed.value
                 mg_total == JsMul(validatedInputs.weight_kg, validatedInputs.dose_mg_per_kg)
             IN  Returned(ResultWithVolume(mg_total, "mg",
                     IF validatedInputs.concentration_mg_per_ml.k = "undefined" THEN NaN
                     ELSE JsDiv(mg_total, validatedInputs.concentration_mg_per_ml)))

calculateLivestockMedicineDosage(in) ==
    LET parsed == ZodParse(livestockMedicineCalculationInputSchema, in)
    IN  IF parsed.status = "thrown" THEN parsed
        ELSE LET validatedInputs == parsed.value
                 mg_total == JsMul(validatedInputs.weight_kg, validatedInputs.dose_mg_per_kg)
             IN  IF Truthy(validatedInputs.concentration_mg_per_ml)
                 THEN Returned(ResultWithVolume(mg_total, "mg",
                          JsDiv(mg_total, validatedInputs.concentration_mg_per_ml)))
                 ELSE Returned(Result(mg_total, "mg"))

calculateHarvestEstimation(in) ==
    LET parsed == ZodParse(harvestEstimationCalculationInputSchema, in)
    IN  IF parsed.status = "thrown" THEN parsed
        ELSE LET validatedInputs == parsed.value
             IN  Returned(Result(JsMul(validatedInputs.area_ha,
                                       validatedInputs.yield_ton_per_ha), "ton"))

calculatePlantingCost(in) ==
    LET parsed == ZodParse(plantingCostCalculationInputSchema, in)
    IN  IF parsed.status = "thrown" THEN parsed
        ELSE LET validatedInputs == parsed.value
             IN  Returned(Result(JsMul(validatedInputs.area_ha,
                                       validatedInputs.cost_rp_per_ha), "Rp"))

\* (mutant) an unknown key yields a zero result instead of an error
calculate_ZeroForUnknownKey(key, in) ==
    CASE key = "fertilizer-requirement" -> calculateFertilizerRequirement(in)
      [] key = "chicken-feed-daily" -> calculateChickenFeedDaily(in)
      [] key = "livestock-medicine-dosage" -> calculateLivestockMedicineDosage(in)
      [] key = "harvest-estimation" -> calculateHarvestEstimation(in)
      [] key = "planting-cost" -> calculatePlantingCost(in)
      [] OTHER -> Returned(Result(Num(0, 1), ""))

\* the dispatcher: a thrown error is logged and rethrown unchanged
calculate(key, in) ==
    CASE key = "fertilizer-requirement" -> calculateFertilizerRequirement(in)
      [] key = "chicken-feed-daily" -> calculateChickenFeedDaily(in)
      [] key = "livestock-medicine-dosage" -> calculateLivestockMedicineDosage(in)
      [] key = "harvest-estimation" -> calculateHarvestEstimation(in)
      [] key = "planting-cost" -> calculatePlantingCost(in)
      [] OTHER -> Thrown(PlainError("Unknown formula key: " \o key))

\* (mutant) the harvest case parses with the planting-cost schema
validateSwitch_WrongSchema(key, in) ==
    CASE key = "fertilizer-requirement" -> ZodParse(fertilizerCalculationInputSchema, in)
      [] key = "chicken-feed-daily" -> ZodParse(chickenFeedCalculationInputSchema, in)
      [] key = "livestock-medicine-dosage" ->
             ZodParse(livestockMedicineCalculationInputSchema, in)
      [] key = "harvest-estimation" -> ZodParse(plantingCostCalculationInputSchema, in)
      [] key = "planting-cost" -> ZodParse(plantingCostCalculationInputSchema, in)
      [] OTHER -> Thrown(PlainError("Unknown formula key: " \o key))

\* the result of the switch of validateCalculationInputs: the parse of the
\* schema of the key, or the unknown-key error
validateSwitch(key, in) ==
    CASE key = "fertilizer-requirement" -> ZodParse(fertilizerCalculationInputSchema, in)
      [] key = "chicken-feed-daily" -> ZodParse(chickenFeedCalculationInputSchema, in)
      [] key = "livestock-medicine-dosage" ->
             ZodParse(livestockMedicineCalculationInputSchema, in)
      [] key = "harvest-estimation" -> ZodParse(harvestEstimationCalculationInputSchema, in)
      [] key = "planting-cost" -> ZodParse(plantingCostCalculationInputSchema, in)
      [] OTHER -> Thrown(PlainError("Unknown formula key: " \o key))

\* validation only: true, or the error of the switch rethrown unchanged
validateCalculationInputs(key, in) ==
    LET parsed == validateSwitch(key, in)
    IN  IF parsed.status = "thrown" THEN parsed ELSE Returned(TRUE)

-----------------------------------------------------------------------------
(* The callers: any formula key with any input mapping *)

UnknownKeys == {"unknown-formula", "unknown-key", ""}

Keys == KnownKeys \cup UnknownKeys

AllFields ==
    {"area_ha", "dose_kg_per_ha", "chicken_count", "feed_kg_per_chicken_per_day",
     "weight_kg", "dose_mg_per_kg", "concentration_mg_per_ml", "yield_ton_per_ha",
     "cost_rp_per_ha", "some_field"}

\* the fields a caller of the formula fills in
FieldsOf(key) ==
    CASE key = "fertilizer-requirement" -> {"area_ha", "dose_kg_per_ha"}
      [] key = "chicken-feed-daily" -> {"chicken_count", "feed_kg_per_chicken_per_day"}
      [] key = "livestock-medicine-dosage" ->
             {"weight_kg", "dose_mg_per_kg", "concentration_mg_per_ml"}
      [] key = "harvest-estimation" -> {"area_ha", "yield_ton_per_ha"}
      [] key = "planting-cost" -> {"area_ha", "cost_rp_per_ha"}
      [] OTHER -> {}

NumValues == {Num(n, d) : n \in (0 - 1)..MaxNum, d \in 1..MaxDen}

Values ==
    NumValues \cup {Undefined, Null, NaN, Infinity(1), Str(" 2 "), Str("abc")}

ExtraValues == {Undefined, Num(123, 1)}

\* an input mapping: an absent field reads as undefined
EmptyInputs == [f \in AllFields |-> Undefined]

InputsOf(key) ==
    { [f \in AllFields |->
          IF f \in FieldsOf(key) THEN vals[f]
          ELSE IF f = "some_field" THEN extra ELSE Undefined]
      : vals \in [FieldsOf(key) -> Values], extra \in ExtraValues }

\* the validator called and, for validatePositiveNumber, its fieldName
Call(fn, fieldName) == [fn |-> fn, fieldName |-> fieldName]
NoCall == Call("none", "")

\* no validator has been called
ValidatorsIdle ==
    /\ arg = Undefined
    /\ called = NoCall
    /\ outcome = NotCalled
    /\ again = NotCalled

\* no summary has been asked for
SummaryIdle ==
    /\ summaryOutcome = NotCalled
    /\ locale = "en-US"

\* no database is attached
ResultsIdle ==
    /\ users = {}
    /\ calculators = {}
    /\ results = {}
    /\ nextResultId = 1
    /\ clock = 0
    /\ reply = NotCalled

\* no seed function has been called
NoSeed == [op |-> "none", at |-> "idle", i |-> 0, existing |-> 0, runs |-> 0]

\* no request has reached the server
NoRequest == [route |-> "none"]

\* the calculator page has not been opened
NoPage == [open |-> FALSE]

AppIdle == seed = NoSeed /\ request = NoRequest /\ page = NoPage

\* a caller holds a formula key and an input mapping
Init ==
    /\ formulaKey \in Keys
    /\ inputs \in InputsOf(formulaKey)
    /\ calcOutcome = NotCalled
    /\ validateOutcome = NotCalled
    /\ ValidatorsIdle
    /\ SummaryIdle
    /\ ResultsIdle
    /\ AppIdle

\* (mutant) the parsed fields, defaults included, are written into the mapping
\* that was passed in
MappingAfterCall_ParsedWrittenBack(key, in) ==
    LET parsed == validateSwitch(key, in)
    IN  IF parsed.status = "returned"
        THEN [f \in DOMAIN in |->
                 IF f \in DOMAIN parsed.value THEN parsed.value[f] ELSE in[f]]
        ELSE in

\* the mapping that was passed in, as it is after the call: schema.parse builds
\* a new object and the handlers assign to no property of their argument
MappingAfterCall(key, in) == in

\* the caller awaits calculate(formulaKey, inputs)
Calculate ==
    /\ calcOutcome.status = "none"
    /\ calcOutcome' = calculate(formulaKey, inputs)
    /\ inputs' = MappingAfterCall(formulaKey, inputs)
    /\ UNCHANGED <<formulaKey, validateOutcome>>
    /\ UNCHANGED <<validatorVars, summaryVars, resultsVars, appVars, webVars>>

\* the caller awaits validateCalculationInputs(formulaKey, inputs)
ValidateCalculationInputs ==
    /\ validateOutcome.status = "none"
    /\ validateOutcome' = validateCalculationInputs(formulaKey, inputs)
    /\ inputs' = MappingAfterCall(formulaKey, inputs)
    /\ UNCHANGED <<formulaKey, calcOutcome>>
    /\ UNCHANGED <<validatorVars, summaryVars, resultsVars, appVars, webVars>>

Next ==
    \/ Calculate
    \/ ValidateCalculationInputs

Spec == Init /\ [][Next]_vars

-----------------------------------------------------------------------------
(* The documented contract of the five formulas, stated on its own terms    *)
(* (not through the operators of the model above)                           *)

\* the two factors of each formula, in the order of its schema
FirstFactor(key) ==
    CASE key = "fertilizer-requirement" -> "area_ha"
      [] key = "chicken-feed-daily" -> "chicken_count"
      [] key = "livestock-medicine-dosage" -> "weight_kg"
      [] key = "harvest-estimation" -> "area_ha"
      [] key = "planting-cost" -> "area_ha"

SecondFactor(key) ==
    CASE key = "fertilizer-requirement" -> "dose_kg_per_ha"
      [] key = "chicken-feed-daily" -> "feed_kg_per_chicken_per_day"
      [] key = "livestock-medicine-dosage" -> "dose_mg_per_kg"
      [] key = "harvest-estimation" -> "yield_ton_per_ha"
      [] key = "planting-cost" -> "cost_rp_per_ha"

DocumentedUnit(key) ==
    CASE key = "fertilizer-requirement" -> "kg"
      [] key = "chicken-feed-daily" -> "kg/day"
      [] key = "livestock-medicine-dosage" -> "mg"
      [] key = "harvest-estimation" -> "ton"
      [] key = "planting-cost" -> "Rp"

\* the fields that have a default, and the default as a fraction
DefaultedFields ==
    {"dose_kg_per_ha", "feed_kg_per_chicken_per_day", "yield_ton_per_ha", "cost_rp_per_ha"}

DocumentedDefault(f) ==
    CASE f = "dose_kg_per_ha" -> <<100, 1>>
      [] f = "feed_kg_per_chicken_per_day" -> <<12, 100>>
      [] f = "yield_ton_per_ha" -> <<5, 1>>
      [] f = "cost_rp_per_ha" -> <<1000000, 1>>

Conc == "concentration_mg_per_ml"

IsNumber(v) == v.k = "number"
IsPositive(v) == v.k = "number" /\ v.num > 0
IsAbsent(v) == v.k = "undefined"

\* the field meets its constraint: a number > 0, whole for chicken_count;
\* a defaulted or optional field may also be absent
MeetsConstraint(f, v) ==
    \/ IsPositive(v) /\ (f = "chicken_count" => (v.den = 1))
    \/ IsAbsent(v) /\ (f \in DefaultedFields \/ f = Conc)

AllMeetConstraints(key, in) == \A f \in FieldsOf(key) : MeetsConstraint(f, in[f])

\* the fraction n/d, or +Infinity, that r is expected to be
SameFraction(r, n, d) ==
    IF d = 0 THEN r.k = "number" /\ r.den = 0 /\ r.num = 1
    ELSE r.k = "number" /\ r.den > 0 /\ r.num * d = n * r.den

\* r = a * b for positive a and b (an infinite factor gives +Infinity)
IsProduct(r, an, ad, bn, bd) == SameFraction(r, an * bn, ad * bd)

\* q = r / c for positive r and c
IsQuotient(q, r, c) ==
    IF r.den = 0 /\ c.den = 0 THEN q.k = "nan"
    ELSE IF r.den = 0 THEN SameFraction(q, 1, 0)
    ELSE IF c.den = 0 THEN SameFraction(q, 0, 1)
    ELSE SameFraction(q, r.num * c.den, r.den * c.num)

\* numerator and denominator of the second factor once the default is applied
SecondNum(key, in) ==
    IF IsAbsent(in[SecondFactor(key)]) /\ SecondFactor(key) \in DefaultedFields
    THEN DocumentedDefault(SecondFactor(key))[1] ELSE in[SecondFactor(key)].num

SecondDen(key, in) ==
    IF IsAbsent(in[SecondFactor(key)]) /\ SecondFactor(key) \in DefaultedFields
    THEN DocumentedDefault(SecondFactor(key))[2] ELSE in[SecondFactor(key)].den

CalcCalled == calcOutcome.status # "none"
CalcReturned == calcOutcome.status = "returned"
CalcThrown == calcOutcome.status = "thrown"
ValidateCalled == validateOutcome.status # "none"
ValidateThrown == validateOutcome.status = "thrown"

HasAdditionalInfo(result) == "additional_info" \in DOMAIN result

-----------------------------------------------------------------------------
\* C1: for each of the five formula keys and every input whose fields all meet
\* the formula's constraints, calculate returns result_value equal to the
\* product of the two documented factors, with the formula's unit label.
C1_ResultIsTwoFactorProduct ==
    (CalcCalled /\ formulaKey \in KnownKeys /\ AllMeetConstraints(formulaKey, inputs))
        => /\ CalcReturned
           /\ IsProduct(calcOutcome.value.result_value,
                        inputs[FirstFactor(formulaKey)].num,
                        inputs[FirstFactor(formulaKey)].den,
                        SecondNum(formulaKey, inputs), SecondDen(formulaKey, inputs))
           /\ calcOutcome.value.unit_label = DocumentedUnit(formulaKey)

\* planting cost of 1.5 ha at 0.5 Rp/ha is 0.75 Rp
C1_Witness ==
    /\ CalcReturned
    /\ formulaKey = "planting-cost"
    /\ inputs["area_ha"] = Num(3, 2)
    /\ inputs["cost_rp_per_ha"] = Num(1, 2)
    /\ calcOutcome.value = [result_value |-> Num(3, 4), unit_label |-> "Rp"]

\* C2: for every formula key outside the five known keys and every input
\* mapping, calculate and validateCalculationInputs both throw the error
\* "Unknown formula key: {key}" and return nothing.
C2_UnknownKeyThrows ==
    formulaKey \notin KnownKeys
        => /\ CalcCalled =>
                /\ CalcThrown
                /\ calcOutcome.error.name = "Error"
                /\ calcOutcome.error.message = "Unknown formula key: " \o formulaKey
           /\ ValidateCalled =>
                /\ ValidateThrown
                /\ validateOutcome.error.name = "Error"
                /\ validateOutcome.error.message = "Unknown formula key: " \o formulaKey

C2_Witness ==
    /\ formulaKey = "unknown-formula"
    /\ inputs["some_field"] = Num(123, 1)
    /\ CalcThrown
    /\ ValidateThrown
    /\ calcOutcome.error.message = "Unknown formula key: unknown-formula"
    /\ validateOutcome.error.message = "Unknown formula key: unknown-formula"

\* C3: for every (formulaKey, inputs), validateCalculationInputs throws if and
\* only if calculate throws, with an identical error, and returns true
\* whenever calculate returns a result.
C3_ValidateAgreesWithCalculate ==
    (CalcCalled /\ ValidateCalled)
        => /\ ValidateThrown <=> CalcThrown
           /\ CalcThrown => validateOutcome.error = calcOutcome.error
           /\ CalcReturned => validateOutcome = Returned(TRUE)

\* both calls made on an input with two invalid fields
C3_Witness ==
    /\ formulaKey = "harvest-estimation"
    /\ inputs["area_ha"] = Num(0, 1)
    /\ inputs["yield_ton_per_ha"] = Str("abc")
    /\ CalcThrown
    /\ ValidateThrown
    /\ Len(validateOutcome.error.issues) = 2

\* the fields the table lists without the optional marker
RequiredFields(key) == FieldsOf(key) \ {Conc}

\* C4: for each of the five formulas, calculate called with a required field
\* equal to 0 or negative throws an error whose message contains
\* "greater than 0", and returns no result.
C4_NonPositiveRequiredFieldThrows ==
    (CalcCalled /\ formulaKey \in KnownKeys
       /\ \E f \in RequiredFields(formulaKey) : IsNumber(inputs[f]) /\ inputs[f].num <= 0)
        => /\ CalcThrown
           /\ Contains(calcOutcome.error.message, "greater than 0")

C4_Witness ==
    /\ formulaKey = "fertilizer-requirement"
    /\ inputs["area_ha"] = Num(0, 1)
    /\ inputs["dose_kg_per_ha"] = Num(2, 1)
    /\ CalcThrown
    /\ Contains(calcOutcome.error.message, "Area must be greater than 0")

\* C5: for livestock-medicine-dosage a returned result carries
\* additional_info.volume_ml = result_value / concentration_mg_per_ml if and
\* only if the concentration was supplied; otherwise additional_info is
\* absent altogether, as it always is for the other four formulas.
C5_VolumeIffConcentrationSupplied ==
    CalcReturned
        => IF formulaKey = "livestock-medicine-dosage"
           THEN /\ HasAdditionalInfo(calcOutcome.value) <=> ~IsAbsent(inputs[Conc])
                /\ HasAdditionalInfo(calcOutcome.value) =>
                      /\ DOMAIN calcOutcome.value.additional_info = {"volume_ml"}
                      /\ IsQuotient(calcOutcome.value.additional_info.volume_ml,
                                    calcOutcome.value.result_value, inputs[Conc])
           ELSE ~HasAdditionalInfo(calcOutcome.value)

\* 3 kg at 1 mg/kg is 3 mg, which at 2 mg/ml is 1.5 ml
C5_Witness ==
    /\ CalcReturned
    /\ formulaKey = "livestock-medicine-dosage"
    /\ inputs["weight_kg"] = Num(3, 1)
    /\ inputs["dose_mg_per_kg"] = Num(1, 1)
    /\ inputs[Conc] = Num(2, 1)
    /\ calcOutcome.value.additional_info.volume_ml = Num(3, 2)

\* the fields of the formula that are not defaulted and not optional
UndefaultedFields(key) == FieldsOf(key) \ (DefaultedFields \cup {Conc})

\* C6: when a field that has a default is absent (dose_kg_per_ha = 100,
\* feed_kg_per_chicken_per_day = 0.12, yield_ton_per_ha = 5, cost_rp_per_ha =
\* 1000000) calculate succeeds and computes the product with the default; a
\* field that is present is never replaced by its default; an absent required
\* field without a default makes the call fail.
C6_DefaultsApplyToAbsentFieldsOnly ==
    (CalcCalled /\ formulaKey \in KnownKeys)
        => LET first == inputs[FirstFactor(formulaKey)]
               second == inputs[SecondFactor(formulaKey)]
               dflt == DocumentedDefault(SecondFactor(formulaKey))
           IN  /\ (SecondFactor(formulaKey) \in DefaultedFields /\ IsAbsent(second)
                     /\ MeetsConstraint(FirstFactor(formulaKey), first))
                    => /\ CalcReturned
                       /\ IsProduct(calcOutcome.value.result_value,
                                    first.num, first.den, dflt[1], dflt[2])
               /\ (SecondFactor(formulaKey) \in DefaultedFields /\ ~IsAbsent(second))
                    => IF IsPositive(second)
                       THEN CalcReturned =>
                              IsProduct(calcOutcome.value.result_value,
                                        first.num, first.den, second.num, second.den)
                       ELSE CalcThrown
               /\ (\E f \in UndefaultedFields(formulaKey) : IsAbsent(inputs[f]))
                    => CalcThrown

\* 3 chickens with the feed amount left out eat 3 * 0.12 = 0.36 kg/day
C6_Witness ==
    /\ CalcReturned
    /\ formulaKey = "chicken-feed-daily"
    /\ inputs["chicken_count"] = Num(3, 1)
    /\ IsAbsent(inputs["feed_kg_per_chicken_per_day"])
    /\ calcOutcome.value.result_value = Num(9, 25)

\* C7 as stated: an input field given as a numeric string is accepted exactly
\* as the corresponding number, with the same result.
C7_Original_NumericStringCoerced ==
    (CalcCalled /\ formulaKey \in KnownKeys)
        => \A f \in FieldsOf(formulaKey) :
              inputs[f] = Str(" 2 ")
                  => /\ CalcReturned <=>
                          AllMeetConstraints(formulaKey, [inputs EXCEPT ![f] = Num(2, 1)])
                     /\ CalcReturned /\ f = FirstFactor(formulaKey) =>
                          IsProduct(calcOutcome.value.result_value, 2, 1,
                                    SecondNum(formulaKey, inputs),
                                    SecondDen(formulaKey, inputs))

\* C7 (amended): calculate does not coerce; a field given as a string, numeric
\* or not, makes the call throw with the issue "Expected number, received
\* string" for that field, and no result is returned.
C7_StringFieldRejected ==
    (CalcCalled /\ formulaKey \in KnownKeys)
        => \A f \in FieldsOf(formulaKey) :
              inputs[f].k = "string"
                  => /\ CalcThrown
                     /\ \E i \in 1..Len(calcOutcome.error.issues) :
                            /\ calcOutcome.error.issues[i].path = f
                            /\ calcOutcome.error.issues[i].code = "invalid_type"
                            /\ calcOutcome.error.issues[i].message
                                   = "Expected number, received string"

C7_Witness ==
    /\ formulaKey = "fertilizer-requirement"
    /\ inputs["area_ha"] = Str(" 2 ")
    /\ inputs["dose_kg_per_ha"] = Num(3, 1)
    /\ CalcThrown
    /\ Len(calcOutcome.error.issues) = 1
    /\ calcOutcome.error.issues[1].path = "area_ha"

\* the fields of the formula in the order the table lists them
DocumentedOrder(key) ==
    CASE key = "fertilizer-requirement" -> <<"area_ha", "dose_kg_per_ha">>
      [] key = "chicken-feed-daily" -> <<"chicken_count", "feed_kg_per_chicken_per_day">>
      [] key = "livestock-medicine-dosage" -> <<"weight_kg", "dose_mg_per_kg", Conc>>
      [] key = "harvest-estimation" -> <<"area_ha", "yield_ton_per_ha">>
      [] key = "planting-cost" -> <<"area_ha", "cost_rp_per_ha">>

PositionOf(key, f) == CHOOSE i \in 1..Len(DocumentedOrder(key)) : DocumentedOrder(key)[i] = f

InvalidFields(key, in) == {f \in FieldsOf(key) : ~MeetsConstraint(f, in[f])}

IssuePaths(error) == {error.issues[i].path : i \in 1..Len(error.issues)}

\* C8 as stated: when more than one field is invalid, the error thrown by
\* calculate and validateCalculationInputs carries only the message of the
\* first failing field.
C8_Original_FirstFailingFieldOnly ==
    /\ (CalcThrown /\ formulaKey \in KnownKeys)
          => \A i \in 1..Len(calcOutcome.error.issues) :
                calcOutcome.error.issues[i].path = calcOutcome.error.issues[1].path
    /\ (ValidateThrown /\ formulaKey \in KnownKeys)
          => \A i \in 1..Len(validateOutcome.error.issues) :
                validateOutcome.error.issues[i].path = validateOutcome.error.issues[1].path

\* the error holds exactly the issues of the invalid fields, in field order
AggregatesAll(error) ==
    /\ error.name = "ZodError"
    /\ IssuePaths(error) = InvalidFields(formulaKey, inputs)
    /\ \A i, j \in 1..Len(error.issues) :
          i <= j => PositionOf(formulaKey, error.issues[i].path)
                       <= PositionOf(formulaKey, error.issues[j].path)
    /\ \A i \in 1..Len(error.issues) : Contains(error.message, error.issues[i].message)

\* C8 (amended): the error thrown by calculate and validateCalculationInputs
\* aggregates the issues of every invalid field, in the order of the schema's
\* fields; the first issue is that of the first failing field, and the error
\* message contains the message of each issue.
C8_ErrorAggregatesAllInvalidFields ==
    /\ (CalcThrown /\ formulaKey \in KnownKeys) => AggregatesAll(calcOutcome.error)
    /\ (ValidateThrown /\ formulaKey \in KnownKeys) => AggregatesAll(validateOutcome.error)

\* all three fields of the medicine formula invalid: three issues, in order
C8_Witness ==
    /\ formulaKey = "livestock-medicine-dosage"
    /\ inputs["weight_kg"] = Num(0, 1)
    /\ inputs["dose_mg_per_kg"] = Null
    /\ inputs[Conc] = Num(0 - 1, 1)
    /\ ValidateThrown
    /\ CalcThrown
    /\ Len(calcOutcome.error.issues) = 3
    /\ calcOutcome.error.issues[1].path = "weight_kg"
    /\ calcOutcome.error.issues[3].path = Conc

PositiveNonIntegral(v) == IsPositive(v) /\ v.den # 1

\* C9 as stated: a positive, non-integral chicken_count fails with the message
\* "chicken_count must be a whole number".
C9_Original_WholeNumberMessage ==
    (CalcCalled /\ formulaKey = "chicken-feed-daily"
       /\ PositiveNonIntegral(inputs["chicken_count"]))
        => /\ CalcThrown
           /\ Contains(calcOutcome.error.message, "chicken_count must be a whole number")

\* C9 (amended): a positive, non-integral chicken_count makes calculate throw
\* the zod error whose issue for chicken_count reads "Expected integer,
\* received float" (the message is not rewritten to "... must be a whole
\* number"), and no result is returned; every integral positive chicken_count
\* is accepted when the feed amount is valid or absent.
C9_NonIntegralChickenCountRejected ==
    (CalcCalled /\ formulaKey = "chicken-feed-daily")
        => /\ PositiveNonIntegral(inputs["chicken_count"])
                => /\ CalcThrown
                   /\ calcOutcome.error.issues[1]
                          = [code |-> "invalid_type", path |-> "chicken_count",
                             message |-> "Expected integer, received float"]
                   /\ ~Contains(calcOutcome.error.message, "whole number")
           /\ (IsPositive(inputs["chicken_count"]) /\ inputs["chicken_count"].den = 1
                 /\ MeetsConstraint("feed_kg_per_chicken_per_day",
                                    inputs["feed_kg_per_chicken_per_day"]))
                => CalcReturned

C9_Witness ==
    /\ formulaKey = "chicken-feed-daily"
    /\ inputs["chicken_count"] = Num(3, 2)
    /\ inputs["feed_kg_per_chicken_per_day"] = Num(1, 2)
    /\ CalcThrown
    /\ Len(calcOutcome.error.issues) = 1

\* C10: calculate never returns a partial result on invalid input; for
\* livestock-medicine-dosage with valid weight and dose and a supplied
\* concentration that is 0 or negative the call throws and no result_value
\* is returned.
C10_NoPartialResultOnInvalidInput ==
    (CalcCalled /\ formulaKey \in KnownKeys)
        => /\ InvalidFields(formulaKey, inputs) # {} => CalcThrown
           /\ (formulaKey = "livestock-medicine-dosage"
                 /\ IsPositive(inputs["weight_kg"]) /\ IsPositive(inputs["dose_mg_per_kg"])
                 /\ IsNumber(inputs[Conc]) /\ inputs[Conc].num <= 0)
                => /\ CalcThrown
                   /\ IssuePaths(calcOutcome.error) = {Conc}

C10_Witness ==
    /\ formulaKey = "livestock-medicine-dosage"
    /\ inputs["weight_kg"] = Num(2, 1)
    /\ inputs["dose_mg_per_kg"] = Num(3, 1)
    /\ inputs[Conc] = Num(0, 1)
    /\ CalcThrown
    /\ calcOutcome.error.issues[1].message = "Concentration must be greater than 0"

-----------------------------------------------------------------------------
(* JavaScript strings, character by character *)

\* the character at position i (1-based), "" outside the string
CharAt(str, i) == IF i >= 1 /\ i <= Len(str) THEN SubSeq(str, i, i) ELSE ""

\* str.substring(i - 1, j): positions i..j, clipped to the string
Slice(str, i, j) ==
    LET lo == IF i < 1 THEN 1 ELSE i
        hi == IF j > Len(str) THEN Len(str) ELSE j
    IN  IF hi < lo THEN "" ELSE SubSeq(str, lo, hi)

IsWhitespace(c) == c \in {" ", "\t", "\n"}

RECURSIVE FirstNonSpace(_, _)
FirstNonSpace(str, i) ==
    IF i <= Len(str) /\ IsWhitespace(CharAt(str, i)) THEN FirstNonSpace(str, i + 1) ELSE i

RECURSIVE LastNonSpace(_, _)
LastNonSpace(str, j) ==
    IF j >= 1 /\ IsWhitespace(CharAt(str, j)) THEN LastNonSpace(str, j - 1) ELSE j

\* str.trim()
Trim(str) == Slice(str, FirstNonSpace(str, 1), LastNonSpace(str, Len(str)))

DigitChars == "0123456789"

IsDigit(c) == \E i \in 1..10 : SubSeq(DigitChars, i, i) = c

\* the first position at or after i that holds no digit
RECURSIVE DigitsEnd(_, _)
DigitsEnd(str, i) == IF IsDigit(CharAt(str, i)) THEN DigitsEnd(str, i + 1) ELSE i

\* the value of the digits at positions i..j-1
RECURSIVE DigitsValue(_, _, _)
DigitsValue(str, i, j) ==
    IF j <= i THEN 0
    ELSE DigitsValue(str, i, j - 1) * 10
            + (CHOOSE d \in 0..9 : CharAt(DigitChars, d + 1) = CharAt(str, j - 1))

RECURSIVE Pow10(_)
Pow10(n) == IF n = 0 THEN 1 ELSE 10 * Pow10(n - 1)

\* parseFloat(str): the longest prefix that is a decimal literal (optional
\* sign, digits, optional fraction) or a signed "Infinity"; whatever follows
\* the prefix is ignored; NaN when there is no such prefix.  Exponents are
\* not modelled (no modelled input has one).
parseFloat(str) ==
    LET t == Slice(str, FirstNonSpace(str, 1), Len(str))
        p == IF CharAt(t, 1) \in {"+", "-"} THEN 2 ELSE 1
        sgn == IF CharAt(t, 1) = "-" THEN 0 - 1 ELSE 1
        e1 == DigitsEnd(t, p)
        hasDot == CharAt(t, e1) = "."
        e2 == IF hasDot THEN DigitsEnd(t, e1 + 1) ELSE e1
        fracLen == IF hasDot THEN e2 - (e1 + 1) ELSE 0
    IN  IF Slice(t, p, p + 7) = "Infinity" THEN Infinity(sgn)
        ELSE IF e1 = p /\ fracLen = 0 THEN NaN
        ELSE Num(sgn * (DigitsValue(t, p, e1) * Pow10(fracLen)
                          + (IF hasDot THEN DigitsValue(t, e1 + 1, e2) ELSE 0)),
                 Pow10(fracLen))

\* typeof value
TypeOf(v) ==
    CASE v.k = "string" -> "string"
      [] v.k \in {"number", "nan"} -> "number"
      [] v.k = "undefined" -> "undefined"
      [] OTHER -> "object"

-----------------------------------------------------------------------------
(* handlers/validation.ts *)

validatePositiveNumber(value, fieldName) ==
    LET invalid == Thrown(PlainError("Enter a valid number for " \o fieldName))
        positive(numValue) ==
            IF LessOrEqualZero(numValue)
            THEN Thrown(PlainError("Enter a number greater than 0 for " \o fieldName))
            ELSE Returned(numValue)
    IN  IF TypeOf(value) = "string"
        THEN LET parsed == parseFloat(Trim(value.s))
             IN  IF parsed.k = "nan" THEN invalid ELSE positive(parsed)
        ELSE IF TypeOf(value) = "number"
        THEN IF value.k = "nan" \/ ~IsFinite(value) THEN invalid ELSE positive(value)
        ELSE invalid

UpperChars == "ABCDEFGHIJKLMNOPQRSTUVWXYZ"
LowerChars == "abcdefghijklmnopqrstuvwxyz"

\* does the one-character string c occur in the string chars
OneOf(c, chars) == c # "" /\ \E i \in 1..Len(chars) : SubSeq(chars, i, i) = c

IsUpper(c) == OneOf(c, UpperChars)
IsAlnum(c) == OneOf(c, UpperChars) \/ OneOf(c, LowerChars) \/ IsDigit(c)

\* the small letter of each capital letter
LowerCaseOf ==
    [c \in {CharAt(UpperChars, i) : i \in 1..26} |->
        CharAt(LowerChars, CHOOSE i \in 1..26 : CharAt(UpperChars, i) = c)]

\* str.toLowerCase()
RECURSIVE ToLowerCase(_)
ToLowerCase(str) ==
    IF Len(str) <= 1
    THEN IF str \in DOMAIN LowerCaseOf THEN LowerCaseOf[str] ELSE str
    ELSE ToLowerCase(Slice(str, 1, Len(str) \div 2))
            \o ToLowerCase(Slice(str, Len(str) \div 2 + 1, Len(str)))

\* positions of the character c in str
PositionsOf(str, c) == {i \in 1..Len(str) : CharAt(str, i) = c}

\* atoms separated by single dots; an atom is made of letters, digits and
\* the symbols of the class (the class also holds the backquote, which no
\* string of the model contains)
LocalPartMatches(l) ==
    /\ Len(l) >= 1
    /\ \A i \in 1..Len(l) :
          \/ IsAlnum(CharAt(l, i))
          \/ OneOf(CharAt(l, i), "!#$%&'*+/=?^_{|}~-")
          \/ CharAt(l, i) = "."
    /\ CharAt(l, 1) # "." /\ CharAt(l, Len(l)) # "."
    /\ \A i \in 1..(Len(l) - 1) : ~(CharAt(l, i) = "." /\ CharAt(l, i + 1) = ".")

\* two or more labels separated by dots; a label is 1..63 characters, letters
\* and digits with inner hyphens
DomainMatches(d) ==
    /\ Len(d) >= 1
    /\ \A i \in 1..Len(d) : IsAlnum(CharAt(d, i)) \/ CharAt(d, i) \in {"-", "."}
    /\ PositionsOf(d, ".") # {}
    /\ IsAlnum(CharAt(d, 1)) /\ IsAlnum(CharAt(d, Len(d)))
    /\ \A i \in PositionsOf(d, ".") : IsAlnum(CharAt(d, i - 1)) /\ IsAlnum(CharAt(d, i + 1))
    /\ \A i \in 1..Len(d) :
          (i = 1 \/ CharAt(d, i - 1) = ".")
             => \E j \in i..(i + 63) : j > Len(d) \/ CharAt(d, j) = "."

\* emailRegex.test(str)
EmailRegexTest(str) ==
    /\ Cardinality(PositionsOf(str, "@")) = 1
    /\ LET at == CHOOSE i \in PositionsOf(str, "@") : TRUE
       IN  /\ LocalPartMatches(Slice(str, 1, at - 1))
           /\ DomainMatches(Slice(str, at + 1, Len(str)))

\* str.split('@')[0]
BeforeFirstAt(str) ==
    IF PositionsOf(str, "@") = {} THEN str
    ELSE Slice(str, 1, (CHOOSE i \in PositionsOf(str, "@") :
                           \A j \in PositionsOf(str, "@") : i <= j) - 1)

\* (mutant) the address is returned trimmed but in its original case
validateEmail_CaseKept(email) ==
    IF TypeOf(email) # "string" THEN Thrown(PlainError("Enter a valid email address"))
    ELSE LET trimmedEmail == Trim(email.s)
         IN  IF Len(trimmedEmail) = 0 THEN Thrown(PlainError("Email address is required"))
             ELSE IF ~EmailRegexTest(trimmedEmail)
             THEN Thrown(PlainError("Enter a valid email address"))
             ELSE IF Len(trimmedEmail) > 254
             THEN Thrown(PlainError("Email address is too long"))
             ELSE IF Len(BeforeFirstAt(trimmedEmail)) > 64
             THEN Thrown(PlainError("Email address is invalid"))
             ELSE Returned(Str(trimmedEmail))

validateEmail(email) ==
    IF TypeOf(email) # "string" THEN Thrown(PlainError("Enter a valid email address"))
    ELSE LET trimmedEmail == Trim(email.s)
         IN  IF Len(trimmedEmail) = 0 THEN Thrown(PlainError("Email address is required"))
             ELSE IF ~EmailRegexTest(trimmedEmail)
             THEN Thrown(PlainError("Enter a valid email address"))
             ELSE IF Len(trimmedEmail) > 254
             THEN Thrown(PlainError("Email address is too long"))
             ELSE IF Len(BeforeFirstAt(trimmedEmail)) > 64
             THEN Thrown(PlainError("Email address is invalid"))
             ELSE Returned(Str(ToLowerCase(trimmedEmail)))

commonWeakPasswords == {"password", "qwerty", "abc123"}

\* (mutant) the deny-list is compared with the password as typed
validatePasswordStrength_CaseSensitive(password) ==
    IF TypeOf(password) # "string" THEN Thrown(PlainError("Password must be text"))
    ELSE IF Len(password.s) = 0 THEN Thrown(PlainError("Password is required"))
    ELSE IF Len(password.s) < 6
    THEN Thrown(PlainError("Password must be at least 6 characters"))
    ELSE IF Len(password.s) > 128 THEN Thrown(PlainError("Password is too long"))
    ELSE IF password.s \in commonWeakPasswords
    THEN Thrown(PlainError("Password is too common. Please choose a stronger password"))
    ELSE Returned(password)

validatePasswordStrength(password) ==
    IF TypeOf(password) # "string" THEN Thrown(PlainError("Password must be text"))
    ELSE IF Len(password.s) = 0 THEN Thrown(PlainError("Password is required"))
    ELSE IF Len(password.s) < 6
    THEN Thrown(PlainError("Password must be at least 6 characters"))
    ELSE IF Len(password.s) > 128 THEN Thrown(PlainError("Password is too long"))
    ELSE IF ToLowerCase(password.s) \in commonWeakPasswords
    THEN Thrown(PlainError("Password is too common. Please choose a stronger password"))
    ELSE Returned(password)

\* the decimal digits of a natural number
RECURSIVE NatToString(_)
NatToString(n) ==
    IF n < 10 THEN CharAt(DigitChars, n + 1)
    ELSE NatToString(n \div 10) \o CharAt(DigitChars, (n % 10) + 1)

\* the digits of a fraction given in thousandths, trailing zeros dropped
FractionDigits(thousandths) ==
    IF thousandths % 100 = 0 THEN NatToString(thousandths \div 100)
    ELSE IF thousandths % 10 = 0
    THEN NatToString(thousandths \div 100) \o NatToString((thousandths \div 10) % 10)
    ELSE NatToString(thousandths \div 100) \o NatToString((thousandths \div 10) % 10)
            \o NatToString(thousandths % 10)

\* String(v) of a number: a decimal of at most three decimals prints as that
\* decimal (exponent notation, for magnitudes the model has not, is left out)
NumberToString(v) ==
    IF v.k = "nan" THEN "NaN"
    ELSE IF v.den = 0 THEN (IF v.num > 0 THEN "Infinity" ELSE "-Infinity")
    ELSE LET thousandths == (Abs(v.num) * 1000) \div v.den
             whole == NatToString(thousandths \div 1000)
             sign == IF v.num < 0 THEN "-" ELSE ""
         IN  IF thousandths % 1000 = 0 THEN sign \o whole
             ELSE sign \o whole \o "." \o FractionDigits(thousandths % 1000)

\* (mutant) an undefined value is put as the empty text
String_UndefinedAsEmpty(v) ==
    CASE v.k = "undefined" -> ""
      [] v.k = "null" -> "null"
      [] v.k \in {"nan", "number"} -> NumberToString(v)
      [] OTHER -> v.s

\* String(v), which is also what a template literal puts for v
String(v) ==
    CASE v.k = "undefined" -> "undefined"
      [] v.k = "null" -> "null"
      [] v.k \in {"nan", "number"} -> NumberToString(v)
      [] OTHER -> v.s

\* is c in the character class: \s, \w, [^\s>]
InClass(c, class) ==
    CASE class = "space" -> IsWhitespace(c)
      [] class = "word" -> IsAlnum(c) \/ c = "_"
      [] class = "bare" -> c # "" /\ ~IsWhitespace(c) /\ c # ">"

\* the position after the longest run of the class that starts at i
RunEnd(str, i, class) ==
    CHOOSE j \in i..(Len(str) + 1) :
        /\ \A m \in i..(j - 1) : InClass(CharAt(str, m), class)
        /\ ~InClass(CharAt(str, j), class)

\* does the lower-case text lit stand at position i, in any letter case
StartsWithCI(str, i, lit) ==
    /\ i >= 1 /\ i + Len(lit) - 1 <= Len(str)
    /\ ToLowerCase(SubSeq(str, i, i + Len(lit) - 1)) = lit

Min(S) == CHOOSE x \in S : \A y \in S : x <= y

\* the first position from i on where one of the texts stands, 0 if none does
IndexOfAny(str, lits, i) ==
    LET found == {p \in i..Len(str) : \E lit \in lits : StartsWithCI(str, p, lit)}
    IN  IF found = {} THEN 0 ELSE Min(found)

\* the position after "on\w+\s*=\s*" when it stands after the spaces at i, else 0
HandlerValueStart(str, i) ==
    LET on == RunEnd(str, i, "space")
        name == RunEnd(str, on + 2, "word")
        eq == RunEnd(str, name, "space")
    IN  IF StartsWithCI(str, on, "on") /\ name > on + 2 /\ CharAt(str, eq) = "="
        THEN RunEnd(str, eq + 1, "space")
        ELSE 0

\* the position after the match of the pattern that starts at i, 0 if none
\* does.  The kinds of pattern, for a word w:
\*   block          /<w\b[^<]*(?:(?!<\/w>)<[^<]*)*<\/w>/gi, which runs from the
\*                  opening tag to the first closing tag after it
\*   tag            /<w[^>]*>/gi
\*   literal        /w/gi
\*   quotedHandler  /\s*on\w+\s*=\s*["'][^"']*["']/gi
\*   bareHandler    /\s*on\w+\s*=\s*[^\s>]*/gi
MatchEnd(pattern, str, i) ==
    CASE pattern.kind = "block" ->
            LET open == "<" \o pattern.word
                close == "</" \o pattern.word \o ">"
                at == IndexOfAny(str, {close}, i + Len(open))
            IN  IF /\ StartsWithCI(str, i, open)
                   /\ ~InClass(CharAt(str, i + Len(open)), "word")
                   /\ at # 0
                THEN at + Len(close) ELSE 0
      [] pattern.kind = "tag" ->
            LET open == "<" \o pattern.word
                at == IndexOfAny(str, {">"}, i + Len(open))
            IN  IF StartsWithCI(str, i, open) /\ at # 0 THEN at + 1 ELSE 0
      [] pattern.kind = "literal" ->
            IF StartsWithCI(str, i, pattern.word) THEN i + Len(pattern.word) ELSE 0
      [] pattern.kind = "quotedHandler" ->
            LET value == HandlerValueStart(str, i)
                at == IndexOfAny(str, {"\"", "'"}, value + 1)
            IN  IF value # 0 /\ CharAt(str, value) \in {"\"", "'"} /\ at # 0
                THEN at + 1 ELSE 0
      [] pattern.kind = "bareHandler" ->
            LET value == HandlerValueStart(str, i)
            IN  IF value # 0 THEN RunEnd(str, value, "bare") ELSE 0

\* str.replace(pattern, '') from position i on: one pass, left to right, over
\* the text as it was before the pass
RECURSIVE RemoveFrom(_, _, _)
RemoveFrom(pattern, str, i) ==
    LET starts == {p \in i..Len(str) : MatchEnd(pattern, str, p) # 0}
    IN  IF starts = {} THEN Slice(str, i, Len(str))
        ELSE Slice(str, i, Min(starts) - 1)
                \o RemoveFrom(pattern, str, MatchEnd(pattern, str, Min(starts)))

\* the chain of removals, in the order of the code
RemovalOrder ==
    << [kind |-> "block", word |-> "script"], [kind |-> "block", word |-> "iframe"],
       [kind |-> "block", word |-> "object"], [kind |-> "tag", word |-> "embed"],
       [kind |-> "tag", word |-> "link"], [kind |-> "tag", word |-> "meta"],
       [kind |-> "literal", word |-> "javascript:"], [kind |-> "literal", word |-> "data:"],
       [kind |-> "quotedHandler", word |-> "on"], [kind |-> "bareHandler", word |-> "on"] >>

RECURSIVE RemoveEach(_, _)
RemoveEach(patterns, str) ==
    IF patterns = <<>> THEN str
    ELSE RemoveEach(Tail(patterns), RemoveFrom(Head(patterns), str, 1))

\* the five entity replacements, "&" first
RECURSIVE EncodeEntities(_)
EncodeEntities(str) ==
    IF Len(str) <= 1
    THEN CASE str = "&" -> "&amp;"
           [] str = "<" -> "&lt;"
           [] str = ">" -> "&gt;"
           [] str = "\"" -> "&quot;"
           [] str = "'" -> "&#x27;"
           [] OTHER -> str
    ELSE EncodeEntities(Slice(str, 1, Len(str) \div 2))
            \o EncodeEntities(Slice(str, Len(str) \div 2 + 1, Len(str)))

sanitizeInput(input) ==
    IF input.k \in {"null", "undefined"} THEN Returned(Str(""))
    ELSE Returned(Str(EncodeEntities(Trim(RemoveEach(RemovalOrder, String(input))))))

-----------------------------------------------------------------------------
(* The callers of the validators: any value at all *)

\* the longest generated e-mail candidate
MaxEmailLen == 5

RECURSIVE Repeat(_, _)
Repeat(str, n) ==
    IF n = 0 THEN ""
    ELSE IF n = 1 THEN str
    ELSE Repeat(str, n \div 2) \o Repeat(str, n - n \div 2)

RECURSIVE Join(_)
Join(seq) == IF seq = <<>> THEN "" ELSE Head(seq) \o Join(Tail(seq))

\* the texts made of at most maxLen of the pieces
Generated(pieces, maxLen) ==
    UNION { {Join(q) : q \in [1..n -> pieces]} : n \in 1..maxLen }

EmailStrings ==
    LET Label63 == Repeat("b", 63)
    IN
    Generated({"a", "B", ".", "@", " "}, MaxEmailLen) \cup
    {"test@example.com", "  Test@EXAMPLE.COM  ", "first.last+tag@sub.domain.co.uk",
     "test123@test-domain.com", "A@B.CO", " a@B.co", "a@-b.co", "a@b-.co", "a@b_c.de",
     "a@@b.co", "a<b@c.de",
     Repeat("a", 64) \o "@b.co", Repeat("A", 65) \o "@b.co",
     "a@" \o Label63 \o ".co", "a@b" \o Label63 \o ".co",
     Repeat("a", 59) \o "@" \o Label63 \o "." \o Label63 \o "." \o Label63 \o ".co",
     Repeat("A", 60) \o "@" \o Label63 \o "." \o Label63 \o "." \o Label63 \o ".co"}

\* numbers of at most three decimals, the values that are no numbers, and an
\* object and an array with the text String() gives them
NonStringArgs ==
    {Num(0, 1), Num(0 - 1, 1), Num(1, 1), Num(5, 1), Num(1, 2), Num(0 - 1, 2),
     Num(103, 4), Num(1, 1000), Num(1500000, 1)}
    \cup {Undefined, Null, NaN, Infinity(1), Infinity(0 - 1)}
    \cup {[k |-> "object", num |-> 0, den |-> 1, s |-> "[object Object]"],
          [k |-> "array", num |-> 0, den |-> 1, s |-> "1,2,3"]}

NumberStrings ==
    {"", "   ", "abc", " 2 ", "25.75", "  42.5  ", "0", "0.0", "-5", "-0.5", ".5", "1.",
     "+3", ".", "-", "2abc", "3 4", "1.5.2", "Infinity", "-Infinity", " Infinity ",
     "infinity", "NaN", "007"}

CalcIdle ==
    /\ formulaKey = ""
    /\ inputs = EmptyInputs
    /\ calcOutcome = NotCalled
    /\ validateOutcome = NotCalled

PasswordStrings ==
    {"", "a", "12345", "123456", "secure123", "  spaced  ", "password", "PASSWORD",
     "PassWord", "qwerty", "QwErTy", "abc123", "ABC123", "password1", "qwertyu",
     Repeat("a", 128), Repeat("a", 129), Repeat("P", 129)}

\* the most fragments a generated markup text is made of
MaxFragments == 3

MarkupStrings ==
    Generated({"javascript:", "java", "script:", "DATA:", "da", "ta:", "<embed>",
               " onx='1'", " onx=1 ", "<script>", "</script>", "x&y"}, MaxFragments) \cup
    {"Hello World", "Text & symbols", "<script>alert(\"xss\")</script>",
     "Text before<script>alert(\"xss\")</script>text after",
     "<SCRIPT>alert(\"case insensitive\")</SCRIPT>", "<scripts>a</script>",
     "<iframe src=\"http://evil.com\"></iframe>", "<object data=\"malware.swf\"></object>",
     "<link rel=\"stylesheet\">", "<meta http-equiv=\"refresh\">",
     "JAVASCRIPT:alert(\"case\")", "Some text javascript:void(0) more text",
     "<div onclick=\"alert('xss')\">Click me</div>", "onsubmit=\"return false\"",
     "<div class=\"test\">Hello & \"world\" 's content</div>"}

ArgValues ==
    NonStringArgs \cup
    {Str(t) : t \in NumberStrings \cup EmailStrings \cup PasswordStrings \cup MarkupStrings}

InitValidators ==
    /\ arg \in ArgValues
    /\ called = NoCall
    /\ outcome = NotCalled
    /\ again = NotCalled
    /\ CalcIdle
    /\ SummaryIdle
    /\ ResultsIdle
    /\ AppIdle

\* a caller runs validatePositiveNumber(arg, fieldName)
ValidatePositiveNumber(fieldName) ==
    /\ called = NoCall
    /\ called' = Call("validatePositiveNumber", fieldName)
    /\ outcome' = validatePositiveNumber(arg, fieldName)
    /\ UNCHANGED <<arg, again, calcVars, summaryVars, resultsVars, appVars, webVars>>

\* a caller runs validateEmail(arg)
ValidateEmail ==
    /\ called = NoCall
    /\ called' = Call("validateEmail", "")
    /\ outcome' = validateEmail(arg)
    /\ UNCHANGED <<arg, again, calcVars, summaryVars, resultsVars, appVars, webVars>>

\* the caller hands the address it got back to validateEmail once more
RevalidateEmail ==
    /\ called.fn = "validateEmail"
    /\ outcome.status = "returned"
    /\ again = NotCalled
    /\ again' = validateEmail(outcome.value)
    /\ UNCHANGED <<arg, called, outcome, calcVars, summaryVars, resultsVars, appVars, webVars>>

\* a caller runs validatePasswordStrength(arg)
ValidatePasswordStrength ==
    /\ called = NoCall
    /\ called' = Call("validatePasswordStrength", "")
    /\ outcome' = validatePasswordStrength(arg)
    /\ UNCHANGED <<arg, again, calcVars, summaryVars, resultsVars, appVars, webVars>>

\* a caller runs sanitizeInput(arg)
SanitizeInput ==
    /\ called = NoCall
    /\ called' = Call("sanitizeInput", "")
    /\ outcome' = sanitizeInput(arg)
    /\ UNCHANGED <<arg, again, calcVars, summaryVars, resultsVars, appVars, webVars>>

NextValidators ==
    \/ \E fieldName \in {"area", "weight"} : ValidatePositiveNumber(fieldName)
    \/ ValidateEmail
    \/ RevalidateEmail
    \/ ValidatePasswordStrength
    \/ SanitizeInput

SpecValidators == InitValidators /\ [][NextValidators]_vars

\* what the contract of validatePositiveNumber calls a numeric literal: an
\* optional sign, then digits with at most one decimal point and nothing else
LiteralBody(t) == IF CharAt(t, 1) \in {"+", "-"} THEN Slice(t, 2, Len(t)) ELSE t

IsNumericLiteral(t) ==
    LET body == LiteralBody(t)
    IN  /\ \E i \in 1..Len(body) : IsDigit(CharAt(body, i))
        /\ \A i \in 1..Len(body) : IsDigit(CharAt(body, i)) \/ CharAt(body, i) = "."
        /\ Cardinality({i \in 1..Len(body) : CharAt(body, i) = "."}) <= 1

LiteralIsPositive(t) ==
    /\ CharAt(t, 1) # "-"
    /\ \E i \in 1..Len(t) : IsDigit(CharAt(t, i)) /\ CharAt(t, i) # "0"

\* the values the contract accepts
AcceptableNumber(v) ==
    \/ v.k = "number" /\ v.den # 0 /\ v.num > 0
    \/ v.k = "string" /\ IsNumericLiteral(Trim(v.s)) /\ LiteralIsPositive(Trim(v.s))

\* the values the contract rejects as not greater than 0
NonPositiveNumber(v) ==
    \/ v.k = "number" /\ v.den # 0 /\ v.num <= 0
    \/ v.k = "string" /\ IsNumericLiteral(Trim(v.s)) /\ ~LiteralIsPositive(Trim(v.s))

PositiveNumberCalled == called.fn = "validatePositiveNumber"

\* C11: validatePositiveNumber(value, fieldName) returns the coerced number
\* exactly when value is a finite number > 0 or a string that, trimmed, is a
\* numeric literal denoting a finite number > 0; it throws "Enter a valid
\* number for {fieldName}" for NaN, Infinity, non-numeric strings, blank
\* strings, null, undefined, objects and arrays, and "Enter a number greater
\* than 0 for {fieldName}" for values <= 0.
C11_PositiveNumberContract ==
    PositiveNumberCalled
        => /\ outcome.status = "returned" <=> AcceptableNumber(arg)
           /\ outcome.status = "returned" =>
                 /\ outcome.value.k = "number" /\ outcome.value.den # 0
                 /\ outcome.value.num > 0
                 /\ arg.k = "number" => outcome.value = arg
           /\ outcome.status = "thrown" =>
                 outcome.error.message =
                     IF NonPositiveNumber(arg)
                     THEN "Enter a number greater than 0 for " \o called.fieldName
                     ELSE "Enter a valid number for " \o called.fieldName

\* C12: validateEmail is idempotent: for every input it accepts, applying it
\* to its own result succeeds and gives the same result, the trimmed,
\* lower-cased address.
C12_ValidateEmailIdempotent ==
    /\ (called.fn = "validateEmail" /\ outcome.status = "returned")
          => /\ outcome.value.k = "string"
             /\ Len(outcome.value.s) = Len(Trim(arg.s))
             /\ \A i \in 1..Len(outcome.value.s) :
                   /\ ~IsUpper(CharAt(outcome.value.s, i))
                   /\ ~IsWhitespace(CharAt(outcome.value.s, i))
    /\ again.status # "none"
          => /\ again.status = "returned"
             /\ again.value = outcome.value

C12_Witness ==
    /\ arg = Str("  Test@EXAMPLE.COM  ")
    /\ outcome = Returned(Str("test@example.com"))
    /\ again = Returned(Str("test@example.com"))

\* the documented deny-list of weak passwords
DocumentedWeakPasswords == {"password", "qwerty", "abc123"}

AcceptablePassword(value) ==
    /\ value.k = "string"
    /\ Len(value.s) >= 6 /\ Len(value.s) <= 128
    /\ ToLowerCase(value.s) \notin DocumentedWeakPasswords

PasswordCalled == called.fn = "validatePasswordStrength"

\* C13: validatePasswordStrength returns the password unchanged exactly when it
\* is a string of 6..128 characters whose lower-cased form is not deny-listed;
\* everything else is rejected, a short string with "Password must be at least
\* 6 characters" and a deny-listed one in any letter case with "Password is too
\* common. Please choose a stronger password".
C13_PasswordStrengthContract ==
    PasswordCalled =>
        /\ AcceptablePassword(arg) <=> outcome.status = "returned"
        /\ outcome.status = "returned" => outcome.value = arg
        /\ ~AcceptablePassword(arg) => outcome.status = "thrown"
        /\ (arg.k = "string" /\ Len(arg.s) >= 1 /\ Len(arg.s) < 6)
              => outcome = Thrown(PlainError("Password must be at least 6 characters"))
        /\ (arg.k = "string" /\ ToLowerCase(arg.s) \in DocumentedWeakPasswords)
              => outcome = Thrown(PlainError(
                     "Password is too common. Please choose a stronger password"))

C13_Witness ==
    /\ PasswordCalled
    /\ arg = Str("PassWord")
    /\ outcome.status = "thrown"

\* the accepting side of C13 happens as well
C13_AcceptedWitness ==
    /\ PasswordCalled
    /\ arg = Str("  spaced  ")
    /\ outcome = Returned(arg)

\* does the text hold the lower-case text lit, in any letter case
ContainsCI(str, lit) == Contains(ToLowerCase(str), lit)

SanitizeCalled == called.fn = "sanitizeInput"

\* C14: for every input, the string sanitizeInput returns holds no occurrence,
\* in any letter case, of "javascript:" or "data:", also when the scheme text
\* is nested or formed again by the removal of another fragment.
C14_NoSchemeSurvives ==
    SanitizeCalled =>
        /\ outcome.status = "returned"
        /\ ~ContainsCI(outcome.value.s, "javascript:")
        /\ ~ContainsCI(outcome.value.s, "data:")

-----------------------------------------------------------------------------
(* handlers/results.ts: the input summary *)

\* values a mapping can hold besides JSON data: the mapping itself, a bigint
\* and a symbol
Self == [k |-> "self", num |-> 0, den |-> 1, s |-> "[object Object]"]
BigInt(n) == [k |-> "bigint", num |-> n, den |-> 1, s |-> NatToString(n)]
Symbol == [k |-> "symbol", num |-> 0, den |-> 1, s |-> "Symbol()"]

\* Number(v), for a v whose conversion does not throw: a text stands for a
\* number when the whole of it, trimmed, is a decimal literal or a signed
\* Infinity
Number(v) ==
    LET t == Trim(v.s)
        p == IF CharAt(t, 1) \in {"+", "-"} THEN 2 ELSE 1
        e1 == DigitsEnd(t, p)
        e2 == IF CharAt(t, e1) = "." THEN DigitsEnd(t, e1 + 1) ELSE e1
        numeric == \/ Slice(t, p, Len(t)) = "Infinity"
                   \/ e2 = Len(t) + 1 /\ e2 - p > (IF CharAt(t, e1) = "." THEN 1 ELSE 0)
    IN  CASE v.k = "undefined" -> NaN
          [] v.k = "null" -> Num(0, 1)
          [] v.k \in {"nan", "number"} -> v
          [] v.k = "bigint" -> Num(v.num, 1)
          [] v.k = "string" ->
                IF t = "" THEN Num(0, 1) ELSE IF numeric THEN parseFloat(t) ELSE NaN
          [] OTHER -> NaN

Locales == {"en-US", "id-ID"}

\* three digits, with leading zeros
ThreeDigits(n) ==
    NatToString(n \div 100) \o NatToString((n \div 10) % 10) \o NatToString(n % 10)

\* the digits of a natural number in groups of three
RECURSIVE Grouped(_, _)
Grouped(n, sep) ==
    IF n < 1000 THEN NatToString(n)
    ELSE Grouped(n \div 1000, sep) \o sep \o ThreeDigits(n % 1000)

\* (mutant) the number is printed as String() prints it
ToLocaleString_Plain(v, loc) == NumberToString(v)

\* v.toLocaleString() in the locale of the runtime, for NaN and for finite
\* numbers of at most three decimals
ToLocaleString(v, loc) ==
    IF v.k = "nan" THEN "NaN"
    ELSE LET thousandths == (Abs(v.num) * 1000) \div v.den
             whole == Grouped(thousandths \div 1000, IF loc = "en-US" THEN "," ELSE ".")
             sign == IF v.num < 0 THEN "-" ELSE ""
         IN  IF thousandths % 1000 = 0 THEN sign \o whole
             ELSE sign \o whole \o (IF loc = "en-US" THEN "." ELSE ",")
                     \o FractionDigits(thousandths % 1000)

\* the keys of a mapping, in the order JSON.stringify visits them
FieldOrder ==
    << "area_ha", "dose_kg_per_ha", "chicken_count", "feed_kg_per_chicken_per_day",
       "weight_kg", "dose_mg_per_kg", "concentration_mg_per_ml", "yield_ton_per_ha",
       "cost_rp_per_ha", "some_field" >>

\* the JSON text of a property value; circular is the text for the mapping
\* itself where a replacer supplies one
JsonValue(v, circular) ==
    CASE v.k = "null" -> "null"
      [] v.k = "nan" -> "null"
      [] v.k = "number" -> IF v.den = 0 THEN "null" ELSE NumberToString(v)
      [] v.k = "string" -> "\"" \o v.s \o "\""
      [] v.k = "self" -> circular
      [] OTHER -> ""

\* the members of the JSON text; a property that is undefined or a symbol is
\* left out
RECURSIVE JsonMembers(_, _, _)
JsonMembers(order, in, circular) ==
    IF order = <<>> THEN ""
    ELSE LET rest == JsonMembers(Tail(order), in, circular)
             v == in[Head(order)]
             member == "\"" \o Head(order) \o "\":" \o JsonValue(v, circular)
         IN  IF v.k \in {"undefined", "symbol"} THEN rest
             ELSE IF rest = "" THEN member
             ELSE member \o "," \o rest

TypeErrorOf(message) == [name |-> "TypeError", message |-> message, issues |-> <<>>]

\* JSON.stringify(obj)
JsonStringify(in) ==
    IF \E f \in DOMAIN in : in[f].k = "self"
    THEN Thrown(TypeErrorOf("Converting circular structure to JSON"))
    ELSE IF \E f \in DOMAIN in : in[f].k = "bigint"
    THEN Thrown(TypeErrorOf("Do not know how to serialize a BigInt"))
    ELSE Returned("{" \o JsonMembers(FieldOrder, in, "") \o "}")

\* JSON.stringify(obj, replacer) with the replacer that gives '[Circular]' for
\* an object it has seen
JsonStringifySeen(in) ==
    IF \E f \in DOMAIN in : in[f].k = "bigint"
    THEN Thrown(TypeErrorOf("Do not know how to serialize a BigInt"))
    ELSE Returned("{" \o JsonMembers(FieldOrder, in, "\"[Circular]\"") \o "}")

\* (mutant) no second attempt: what JSON.stringify throws is thrown on
safeJsonStringify_NoFallback(obj) == JsonStringify(obj)

safeJsonStringify(obj) ==
    IF JsonStringify(obj).status = "returned" THEN JsonStringify(obj)
    ELSE IF JsonStringifySeen(obj).status = "returned" THEN JsonStringifySeen(obj)
    ELSE Returned("[Complex Object]")

\* the template of the key, when no conversion throws
SummaryTemplate(calculatorSlug, inputJson, loc) ==
    CASE calculatorSlug = "fertilizer-requirement" ->
             "Area: " \o String(inputJson["area_ha"]) \o " ha, Dose: "
                \o String(inputJson["dose_kg_per_ha"]) \o " kg/ha"
      [] calculatorSlug = "chicken-feed-daily" ->
             "Chickens: " \o String(inputJson["chicken_count"]) \o ", Feed per chicken: "
                \o String(inputJson["feed_kg_per_chicken_per_day"]) \o " kg/day"
      [] calculatorSlug = "livestock-medicine-dosage" ->
             LET concentrationText ==
                     IF Truthy(inputJson["concentration_mg_per_ml"])
                     THEN ", Concentration: "
                             \o String(inputJson["concentration_mg_per_ml"]) \o " mg/ml"
                     ELSE ""
             IN  "Weight: " \o String(inputJson["weight_kg"]) \o " kg, Dose: "
                    \o String(inputJson["dose_mg_per_kg"]) \o " mg/kg" \o concentrationText
      [] calculatorSlug = "harvest-estimation" ->
             "Area: " \o String(inputJson["area_ha"]) \o " ha, Yield: "
                \o String(inputJson["yield_ton_per_ha"]) \o " ton/ha"
      [] calculatorSlug = "planting-cost" ->
             "Area: " \o String(inputJson["area_ha"]) \o " ha, Cost per ha: Rp "
                \o ToLocaleString(Number(inputJson["cost_rp_per_ha"]), loc)

\* the default case and the catch both give safeJsonStringify(inputJson); the
\* template of a known key throws (a TypeError) when one of the values it
\* converts is a symbol
generateInputSummary(calculatorSlug, inputJson, loc) ==
    LET interpolated ==
            CASE calculatorSlug = "fertilizer-requirement" -> {"area_ha", "dose_kg_per_ha"}
              [] calculatorSlug = "chicken-feed-daily" ->
                     {"chicken_count", "feed_kg_per_chicken_per_day"}
              [] calculatorSlug = "livestock-medicine-dosage" ->
                     {"weight_kg", "dose_mg_per_kg"} \cup
                     (IF Truthy(inputJson["concentration_mg_per_ml"])
                      THEN {"concentration_mg_per_ml"} ELSE {})
              [] calculatorSlug = "harvest-estimation" -> {"area_ha", "yield_ton_per_ha"}
              [] calculatorSlug = "planting-cost" -> {"area_ha", "cost_rp_per_ha"}
              [] OTHER -> {}
    IN  IF calculatorSlug \notin KnownKeys THEN safeJsonStringify(inputJson)
        ELSE IF \E f \in interpolated : inputJson[f].k = "symbol"
        THEN safeJsonStringify(inputJson)
        ELSE Returned(SummaryTemplate(calculatorSlug, inputJson, loc))

-----------------------------------------------------------------------------
(* The callers of the input summary: a key and a stored mapping *)

StoredNumbers ==
    {Num(0, 1), Num(2, 1), Num(5, 2), Num(12, 100), Num(500, 1), Num(1500000, 1)}

SummaryValues ==
    StoredNumbers \cup
    {Undefined, Null, NaN, Str(""), Str("abc"), Str(" 2 "), Self, BigInt(7), Symbol}

SummaryInputsOf(key) ==
    LET filled == IF key \in KnownKeys THEN FieldsOf(key) ELSE {"area_ha", "some_field"}
    IN  { [f \in AllFields |-> IF f \in filled THEN vals[f] ELSE Undefined] :
            vals \in [filled -> SummaryValues] }

InitSummary ==
    /\ formulaKey \in Keys
    /\ inputs \in SummaryInputsOf(formulaKey)
    /\ locale \in Locales
    /\ summaryOutcome = NotCalled
    /\ calcOutcome = NotCalled
    /\ validateOutcome = NotCalled
    /\ ValidatorsIdle
    /\ ResultsIdle
    /\ AppIdle

\* a caller runs generateInputSummary(formulaKey, inputs)
GenerateInputSummary ==
    /\ summaryOutcome = NotCalled
    /\ summaryOutcome' = generateInputSummary(formulaKey, inputs, locale)
    /\ UNCHANGED <<calcVars, validatorVars, locale, resultsVars, appVars, webVars>>

SpecSummary == InitSummary /\ [][GenerateInputSummary]_vars

-----------------------------------------------------------------------------
(* Claims about the input summary *)

SummaryCalled == summaryOutcome.status # "none"

\* the documented fields of the key's template, without the optional suffix
TemplateFields(key) == FieldsOf(key) \ {"concentration_mg_per_ml"}

\* the text of a stored number as it was stored
Verbatim(v) ==
    CASE v = Num(0, 1) -> "0"
      [] v = Num(2, 1) -> "2"
      [] v = Num(5, 2) -> "2.5"
      [] v = Num(12, 100) -> "0.12"
      [] v = Num(500, 1) -> "500"
      [] v = Num(1500000, 1) -> "1500000"

\* the text of a stored number with its digits grouped for the locale
GroupedForLocale(v, loc) ==
    CASE v = Num(5, 2) /\ loc = "id-ID" -> "2,5"
      [] v = Num(12, 100) /\ loc = "id-ID" -> "0,12"
      [] v = Num(1500000, 1) /\ loc = "en-US" -> "1,500,000"
      [] v = Num(1500000, 1) /\ loc = "id-ID" -> "1.500.000"
      [] OTHER -> Verbatim(v)

\* the documented template of a known key; text(f) is what stands for field f
\* and suffix says whether the concentration is appended
DocumentedTemplate(key, text(_), suffix) ==
    CASE key = "fertilizer-requirement" ->
             "Area: " \o text("area_ha") \o " ha, Dose: " \o text("dose_kg_per_ha") \o " kg/ha"
      [] key = "chicken-feed-daily" ->
             "Chickens: " \o text("chicken_count") \o ", Feed per chicken: "
                \o text("feed_kg_per_chicken_per_day") \o " kg/day"
      [] key = "livestock-medicine-dosage" ->
             "Weight: " \o text("weight_kg") \o " kg, Dose: " \o text("dose_mg_per_kg")
                \o " mg/kg"
                \o (IF suffix
                    THEN ", Concentration: " \o text("concentration_mg_per_ml") \o " mg/ml"
                    ELSE "")
      [] key = "harvest-estimation" ->
             "Area: " \o text("area_ha") \o " ha, Yield: " \o text("yield_ton_per_ha")
                \o " ton/ha"
      [] key = "planting-cost" ->
             "Area: " \o text("area_ha") \o " ha, Cost per ha: Rp " \o text("cost_rp_per_ha")

\* every field of the template holds a stored number, the concentration a
\* stored number or nothing
StoredShape ==
    /\ formulaKey \in KnownKeys
    /\ \A f \in TemplateFields(formulaKey) : inputs[f] \in StoredNumbers
    /\ inputs["concentration_mg_per_ml"] \in StoredNumbers \cup {Undefined}

ConcentrationPresent == inputs["concentration_mg_per_ml"] # Undefined

VerbatimText(f) == Verbatim(inputs[f])

\* C15 as stated: every value verbatim, the suffix iff the concentration is
\* present, whatever its value.
C15_Original_VerbatimAndSuffixIffPresent ==
    (SummaryCalled /\ StoredShape) =>
        summaryOutcome =
            Returned(DocumentedTemplate(formulaKey, VerbatimText, ConcentrationPresent))

StoredText(f) ==
    IF f = "cost_rp_per_ha" THEN GroupedForLocale(inputs[f], locale)
    ELSE Verbatim(inputs[f])

\* C15 (amended): for a known key generateInputSummary returns the key's
\* template with the stored values interpolated verbatim, except the cost of
\* planting-cost, which is put with its digits grouped for the locale of the
\* runtime; the medicine suffix is appended iff the concentration is present
\* and not 0.
C15_TemplateWithGroupedCostAndTruthySuffix ==
    (SummaryCalled /\ StoredShape) =>
        summaryOutcome =
            Returned(DocumentedTemplate(formulaKey, StoredText,
                        ConcentrationPresent /\ inputs["concentration_mg_per_ml"] # Num(0, 1)))

C15_Witness ==
    /\ SummaryCalled /\ StoredShape
    /\ \/ /\ formulaKey = "planting-cost"
          /\ inputs["cost_rp_per_ha"] = Num(1500000, 1)
          /\ locale = "en-US"
          /\ summaryOutcome = Returned("Area: 2 ha, Cost per ha: Rp 1,500,000")
       \/ /\ formulaKey = "livestock-medicine-dosage"
          /\ inputs["concentration_mg_per_ml"] = Num(0, 1)
          /\ summaryOutcome = Returned("Weight: 500 kg, Dose: 2 mg/kg")

\* the member "field":value of a JSON text
MemberText(f) ==
    "\"" \o f \o "\":"
       \o (IF inputs[f].k = "string" THEN "\"" \o inputs[f].s \o "\""
           ELSE IF inputs[f].k \in {"null", "nan"} THEN "null"
           ELSE Verbatim(inputs[f]))

HasSelfReference == \E f \in AllFields : inputs[f] = Self

\* can the mapping be written as JSON as it is
Serializable == \A f \in AllFields : inputs[f].k \notin {"self", "bigint"}

\* the JSON text reproduces the mapping: an object with one member for every
\* field that holds data and none for a field that is not there
ReproducesMapping(text) ==
    /\ CharAt(text, 1) = "{" /\ CharAt(text, Len(text)) = "}"
    /\ \A f \in AllFields :
          IF inputs[f].k \in {"undefined", "symbol"}
          THEN ~Contains(text, "\"" \o f \o "\"")
          ELSE Contains(text, MemberText(f))

MarksCircular(text) == Contains(text, "[Circular]") \/ text = "[Complex Object]"

\* C16 as stated: never throws; JSON for an unrecognized key; for a
\* self-referential input, whatever the key, a string with "[Circular]" or
\* "[Complex Object]".
C16_Original_CircularMarkedForEveryKey ==
    SummaryCalled =>
        /\ summaryOutcome.status = "returned"
        /\ (formulaKey \notin KnownKeys /\ Serializable)
              => ReproducesMapping(summaryOutcome.value)
        /\ HasSelfReference => MarksCircular(summaryOutcome.value)

\* C16 (amended): generateInputSummary never throws; for an unrecognized key
\* it returns the JSON serialization of the input mapping, and for an
\* unrecognized key with a self-referential input a string that holds
\* "[Circular]" or is "[Complex Object]".  (For a known key a self-referential
\* input gets the key's template like any other.)
C16_NeverThrowsAndFallsBackToJson ==
    SummaryCalled =>
        /\ summaryOutcome.status = "returned"
        /\ (formulaKey \notin KnownKeys /\ Serializable)
              => ReproducesMapping(summaryOutcome.value)
        /\ (formulaKey \notin KnownKeys /\ HasSelfReference)
              => MarksCircular(summaryOutcome.value)

C16_Witness ==
    /\ SummaryCalled
    /\ formulaKey \notin KnownKeys
    /\ inputs["some_field"] = Self
    /\ inputs["area_ha"] = Str("abc")
    /\ summaryOutcome = Returned("{\"area_ha\":\"abc\",\"some_field\":\"[Circular]\"}")

\* a field of the template is missing, the others hold stored numbers
MissingShape ==
    /\ formulaKey \in KnownKeys
    /\ \A f \in TemplateFields(formulaKey) : inputs[f] \in StoredNumbers \cup {Undefined}
    /\ \E f \in TemplateFields(formulaKey) : inputs[f] = Undefined
    /\ inputs["concentration_mg_per_ml"] = Undefined

UndefinedForMissing(f) == IF inputs[f] = Undefined THEN "undefined" ELSE StoredText(f)

\* C17 as stated: every missing field of the template reads "undefined".
C17_Original_MissingReadsUndefined ==
    (SummaryCalled /\ MissingShape) =>
        summaryOutcome = Returned(DocumentedTemplate(formulaKey, UndefinedForMissing, FALSE))

MissingText(f) ==
    IF inputs[f] # Undefined THEN StoredText(f)
    ELSE IF f = "cost_rp_per_ha" THEN "NaN"
    ELSE "undefined"

\* C17 (amended): for a known key and a mapping that lacks a field of the
\* template, generateInputSummary does not throw and returns the template with
\* "undefined" in the place of each missing field, except a missing cost of
\* planting-cost, in whose place "NaN" stands.
C17_MissingReadsUndefinedOrNaN ==
    (SummaryCalled /\ MissingShape) =>
        summaryOutcome = Returned(DocumentedTemplate(formulaKey, MissingText, FALSE))

C17_Witness ==
    /\ SummaryCalled /\ MissingShape
    /\ formulaKey = "planting-cost"
    /\ summaryOutcome = Returned("Area: undefined ha, Cost per ha: Rp NaN")

-----------------------------------------------------------------------------
(* Claims about the frame of the calculation handlers *)

C18_FailureWitness ==
    /\ calcOutcome.status = "thrown"
    /\ validateOutcome.status = "thrown"
    /\ inputs["area_ha"] = Str(" 2 ")

-----------------------------------------------------------------------------
(* db/schema.ts and handlers/results.ts: the results table *)

\* the most rows the results table is given
MaxResults == 3

\* the text a numeric(18, 4) column gives back: four decimals, rounded
NumericText(v) ==
    LET whole == Abs(v.num) \div v.den
        fraction == (((Abs(v.num) % v.den) * 20000) + v.den) \div (2 * v.den)
        carried == IF fraction = 10000 THEN whole + 1 ELSE whole
        digits == IF fraction = 10000 THEN 0 ELSE fraction
    IN  (IF v.num < 0 THEN "-" ELSE "") \o NatToString(carried) \o "."
           \o NatToString(digits \div 1000) \o ThreeDigits(digits % 1000)

\* a row of the results table
ResultRow(id, input, created_at) ==
    [id |-> id, user_id |-> input.user_id, calculator_id |-> input.calculator_id,
     input_json |-> input.input_json, result_value |-> NumericText(input.result_value),
     unit_label |-> input.unit_label, created_at |-> created_at]

\* (mutant) the calculator is not looked up before the insert
saveResult_CalculatorUnchecked(input, userRows, calculatorRows, id, created_at) ==
    IF ~\E u \in userRows : u.id = input.user_id
    THEN Thrown(PlainError("User with ID " \o NatToString(input.user_id) \o " not found"))
    ELSE Returned([ResultRow(id, input, created_at) EXCEPT
                      !.result_value = parseFloat(NumericText(input.result_value))])

\* saveResult(input) on a database with these users and calculators, the row
\* getting this id and this time; the Result returned is the row with its
\* result_value parsed back to a number
saveResult(input, userRows, calculatorRows, id, created_at) ==
    IF ~\E u \in userRows : u.id = input.user_id
    THEN Thrown(PlainError("User with ID " \o NatToString(input.user_id) \o " not found"))
    ELSE IF ~\E c \in calculatorRows : c.id = input.calculator_id
    THEN Thrown(PlainError("Calculator with ID " \o NatToString(input.calculator_id)
                              \o " not found"))
    ELSE Returned([ResultRow(id, input, created_at) EXCEPT
                      !.result_value = parseFloat(NumericText(input.result_value))])

\* (mutant) the owner is not part of the condition
DeletedRows_AnyOwner(input, rows) == {r \in rows : r.id = input.result_id}

\* the rows DELETE ... WHERE id = result_id AND user_id = user_id removes
DeletedRows(input, rows) ==
    {r \in rows : r.id = input.result_id /\ r.user_id = input.user_id}

\* deleteUserResult(input): rowCount > 0
deleteUserResult(input, rows) == Returned(Cardinality(DeletedRows(input, rows)) > 0)

\* (mutant) the owner is never part of the conditions
getResultById_AnyOwner(resultId, given, userId, rows) ==
    IF {r \in rows : r.id = resultId} = {} THEN {Returned(Null)}
    ELSE {Returned([r EXCEPT !.result_value = parseFloat(r.result_value)]) :
             r \in {x \in rows : x.id = resultId}}

\* getResultById(resultId, userId?), userId being given or left undefined: what
\* the call may return. SELECT ... WHERE id = resultId [AND user_id = userId]
\* LIMIT 1 gives any one of the matching rows; null when there is none
getResultById(resultId, given, userId, rows) ==
    LET found == {r \in rows : r.id = resultId /\ (given => r.user_id = userId)}
    IN  IF found = {} THEN {Returned(Null)}
        ELSE {Returned([r EXCEPT !.result_value = parseFloat(r.result_value)]) :
                 r \in found}

\* (mutant) the rows of every user are selected
HistoryRows_AllUsers(userId, rows, calculatorRows) ==
    {[result |-> r, calculator |-> c] : r \in rows, c \in calculatorRows} \cap
    {j \in [result : rows, calculator : calculatorRows] :
        j.result.calculator_id = j.calculator.id}

\* results INNER JOIN calculators ON calculator_id = calculators.id
\* WHERE results.user_id = userId
HistoryRows(userId, rows, calculatorRows) ==
    {j \in [result : rows, calculator : calculatorRows] :
        /\ j.result.calculator_id = j.calculator.id
        /\ j.result.user_id = userId}

\* ORDER BY created_at DESC: every order of the rows in which no row stands
\* before a newer one; rows of one time come in any order
Descending(rows) ==
    {order \in [1..Cardinality(rows) -> rows] :
        /\ \A i, j \in 1..Cardinality(rows) : i # j => order[i] # order[j]
        /\ \A i, j \in 1..Cardinality(rows) :
              i < j => order[i].result.created_at >= order[j].result.created_at}

\* getUserHistory(userId), the database giving the joined rows in this order:
\* one UserHistory item for each
getUserHistory(order, loc) ==
    LET item(j) ==
            [id |-> j.result.id,
             calculator_name |-> j.calculator.name,
             calculator_slug |-> j.calculator.slug,
             input_summary |->
                 generateInputSummary(j.calculator.slug, j.result.input_json, loc).value,
             result_value |-> parseFloat(j.result.result_value),
             unit_label |-> j.result.unit_label,
             created_at |-> j.result.created_at]
    IN  Returned([i \in DOMAIN order |-> item(order[i])])

-----------------------------------------------------------------------------
(* The seed functions (seedCalculators, seedTestUser, runSeeds): the rows   *)
(* of users and calculators hold the columns the handlers write and read;   *)
(* created_at and updated_at, which no handler here reads, are left out.     *)

\* the most runs of seed functions, one after the other
MaxSeedRuns == 3

initialCalculators ==
    << [name |-> "Fertilizer Requirement", slug |-> "fertilizer-requirement",
        description |-> "Calculate how much fertilizer you need for your farm area",
        category |-> "farming", unit_label |-> "kg",
        formula_key |-> "fertilizer-requirement"],
       [name |-> "Chicken Daily Feed Requirement", slug |-> "chicken-feed-daily",
        description |-> "Calculate daily feed requirement for your chickens",
        category |-> "livestock", unit_label |-> "kg/day",
        formula_key |-> "chicken-feed-daily"],
       [name |-> "Livestock Medicine Dosage", slug |-> "livestock-medicine-dosage",
        description |-> "Calculate proper medicine dosage based on animal weight",
        category |-> "livestock", unit_label |-> "mg",
        formula_key |-> "livestock-medicine-dosage"],
       [name |-> "Harvest Estimation", slug |-> "harvest-estimation",
        description |-> "Estimate your harvest yield based on farm area",
        category |-> "farming", unit_label |-> "ton",
        formula_key |-> "harvest-estimation"],
       [name |-> "Planting Cost", slug |-> "planting-cost",
        description |-> "Calculate total planting costs for your farm area",
        category |-> "farming", unit_label |-> "Rp",
        formula_key |-> "planting-cost"] >>

testUserData ==
    [name |-> "Test User", email |-> "test@example.com", password |-> "password123"]

\* the row an insert of these values gives, the serial column giving the id
InsertedRow(id, values) == [id |-> id] @@ values

\* a caller awaits runSeeds(), seedCalculators() or seedTestUser(), the run
\* before it (if any) having settled
CallSeed(op) ==
    /\ seed.at \in {"idle", "done", "thrown"}
    /\ seed.runs < MaxSeedRuns
    /\ seed' = [op |-> op,
                at |-> IF op = "seedCalculators" THEN "selectCalculator" ELSE "selectUser",
                i |-> 1, existing |-> 0, runs |-> seed.runs + 1]
    /\ UNCHANGED <<calcVars, validatorVars, summaryVars, resultsVars, webVars>>

\* where a run goes on after seedTestUser: runSeeds calls seedCalculators next
AfterTestUser == IF seed.op = "runSeeds" THEN "selectCalculator" ELSE "done"

\* (mutant) the test user is inserted whether or not the select found one
SeedTestUser_Unchecked ==
    \/ /\ seed.at = "selectUser"
       /\ seed' = [seed EXCEPT !.existing = 0, !.at = "insertUser"]
       /\ UNCHANGED <<calcVars, validatorVars, summaryVars, resultsVars, webVars>>
    \/ /\ seed.at = "insertUser"
       /\ users' = users \cup {InsertedRow(Cardinality(users) + 1, testUserData)}
       /\ seed' = [seed EXCEPT !.at = AfterTestUser]
       /\ UNCHANGED <<calculators, results, nextResultId, clock, reply>>
       /\ UNCHANGED <<calcVars, validatorVars, summaryVars, webVars>>

\* seedTestUser(), one await at a time: the select by e-mail, then the insert
\* when the select found no row; the e-mail column is unique, so an insert of
\* an e-mail that is there throws, and the seed function rethrows
SeedTestUser ==
    \/ /\ seed.at = "selectUser"
       /\ seed' = [seed EXCEPT
                      !.existing = Cardinality({u \in users : u.email = testUserData.email}),
                      !.at = "insertUser"]
       /\ UNCHANGED <<calcVars, validatorVars, summaryVars, resultsVars, webVars>>
    \/ /\ seed.at = "insertUser"
       /\ IF seed.existing # 0
          THEN /\ seed' = [seed EXCEPT !.at = AfterTestUser]
               /\ UNCHANGED users
          ELSE IF \E u \in users : u.email = testUserData.email
          THEN /\ seed' = [seed EXCEPT !.at = "thrown"]
               /\ UNCHANGED users
          ELSE /\ seed' = [seed EXCEPT !.at = AfterTestUser]
               /\ users' = users \cup {InsertedRow(Cardinality(users) + 1, testUserData)}
       /\ UNCHANGED <<calculators, results, nextResultId, clock, reply>>
       /\ UNCHANGED <<calcVars, validatorVars, summaryVars, webVars>>

\* where a run goes on after the calculator at seed.i
AfterCalculator ==
    IF seed.i < Len(initialCalculators)
    THEN [seed EXCEPT !.at = "selectCalculator", !.i = seed.i + 1]
    ELSE [seed EXCEPT !.at = "done"]

\* seedCalculators(), one await at a time: for each of the initial calculators
\* the select by slug, then the insert when the select found no row; the slug
\* column is unique
SeedCalculators ==
    \/ /\ seed.at = "selectCalculator"
       /\ seed' = [seed EXCEPT
                      !.existing = Cardinality({c \in calculators :
                                       c.slug = initialCalculators[seed.i].slug}),
                      !.at = "insertCalculator"]
       /\ UNCHANGED <<calcVars, validatorVars, summaryVars, resultsVars, webVars>>
    \/ /\ seed.at = "insertCalculator"
       /\ IF seed.existing # 0
          THEN /\ seed' = AfterCalculator
               /\ UNCHANGED calculators
          ELSE IF \E c \in calculators : c.slug = initialCalculators[seed.i].slug
          THEN /\ seed' = [seed EXCEPT !.at = "thrown"]
               /\ UNCHANGED calculators
          ELSE /\ seed' = AfterCalculator
               /\ calculators' = calculators \cup
                     {InsertedRow(Cardinality(calculators) + 1, initialCalculators[seed.i])}
       /\ UNCHANGED <<users, results, nextResultId, clock, reply>>
       /\ UNCHANGED <<calcVars, validatorVars, summaryVars, webVars>>

\* an empty database
InitSeeds ==
    /\ ResultsIdle
    /\ AppIdle
    /\ CalcIdle
    /\ ValidatorsIdle
    /\ SummaryIdle

NextSeeds ==
    \/ \E op \in {"runSeeds", "seedCalculators", "seedTestUser"} : CallSeed(op)
    \/ SeedTestUser
    \/ SeedCalculators

SpecSeeds == InitSeeds /\ [][NextSeeds]_vars

-----------------------------------------------------------------------------
(* The callers of the results handlers *)

\* the ids of the registered users; 3 is an id no user has
UserIds == {1, 2}

\* two of the initial calculators, created in this order
SeededCalculators ==
    {InsertedRow(1, initialCalculators[1]), InsertedRow(2, initialCalculators[5])}

\* a CreateResultInput with the inputs of a calculation of the calculator, as
\* the client stores them; the result_value is a whole number (1000), a number
\* of one decimal (2.5) or a number of five decimals (0.12345)
CreateResultInput(user_id, calculator_id) ==
    [user_id |-> user_id,
     calculator_id |-> calculator_id,
     input_json |->
         [f \in AllFields |->
             IF f = "area_ha" THEN Num(2, 1)
             ELSE IF f = "dose_kg_per_ha" /\ calculator_id # 2 THEN Num(500, 1)
             ELSE IF f = "cost_rp_per_ha" /\ calculator_id = 2 THEN Num(1500000, 1)
             ELSE Undefined],
     result_value |-> IF calculator_id = 2 THEN Num(5, 2)
                      ELSE IF user_id = 2 THEN Num(2469, 20000) ELSE Num(1000, 1),
     unit_label |-> IF calculator_id = 2 THEN "Rp" ELSE "kg"]

Asked(op, input, outcomeOf) ==
    [status |-> "asked", op |-> op, input |-> input, outcome |-> outcomeOf]

\* the database after seeding and registration, no result saved yet; the
\* runtime formats numbers for en-US (other locales: SpecSummary)
InitResults ==
    /\ users = {InsertedRow(1, testUserData),
                InsertedRow(2, [testUserData EXCEPT !.email = "test2@example.com"])}
    /\ calculators = SeededCalculators
    /\ results = {}
    /\ nextResultId = 1
    /\ clock = 0
    /\ reply = NotCalled
    /\ SummaryIdle
    /\ CalcIdle
    /\ ValidatorsIdle
    /\ AppIdle

\* a caller awaits saveResult(input), input being the CreateResultInput of the
\* user and calculator; the row gets the next serial id and the time of the
\* database clock, which may or may not have moved on since the row before
\* (the clock is read only when a row is inserted)
SaveResult(user_id, calculator_id) ==
    LET input == CreateResultInput(user_id, calculator_id)
    IN  /\ nextResultId <= MaxResults
        /\ \E elapsed \in {0, 1} :
              LET saved == saveResult(input, users, calculators, nextResultId,
                                      clock + elapsed)
              IN  /\ reply' = Asked("saveResult", input, saved)
                  /\ IF saved.status = "returned"
                     THEN /\ results' = results \cup
                                 {ResultRow(nextResultId, input, clock + elapsed)}
                          /\ nextResultId' = nextResultId + 1
                          /\ clock' = clock + elapsed
                     ELSE UNCHANGED <<results, nextResultId, clock>>
        /\ UNCHANGED <<users, calculators, calcVars, validatorVars, summaryVars, appVars, webVars>>

\* a caller awaits deleteUserResult(input), input being the DeleteResultInput
\* { result_id, user_id }
DeleteUserResult(result_id, user_id) ==
    LET input == [result_id |-> result_id, user_id |-> user_id]
    IN  /\ results' = results \ DeletedRows(input, results)
        /\ reply' = Asked("deleteUserResult", input, deleteUserResult(input, results))
        /\ UNCHANGED <<users, calculators, nextResultId, clock>>
        /\ UNCHANGED <<calcVars, validatorVars, summaryVars, appVars, webVars>>

\* a caller awaits getUserHistory(userId)
GetUserHistory(userId) ==
    /\ \E order \in Descending(HistoryRows(userId, results, calculators)) :
          reply' = Asked("getUserHistory", userId, getUserHistory(order, locale))
    /\ UNCHANGED <<users, calculators, results, nextResultId, clock>>
    /\ UNCHANGED <<calcVars, validatorVars, summaryVars, appVars, webVars>>

\* a caller awaits getResultById(resultId) or getResultById(resultId, userId)
GetResultById(resultId, given, userId) ==
    LET input == [resultId |-> resultId, given |-> given, userId |-> userId]
    IN  /\ \E got \in getResultById(resultId, given, userId, results) :
              reply' = Asked("getResultById", input, got)
        /\ UNCHANGED <<users, calculators, results, nextResultId, clock>>
        /\ UNCHANGED <<calcVars, validatorVars, summaryVars, appVars, webVars>>

NextResults ==
    \/ \E ids \in (UserIds \X {1, 2}) \cup {<<3, 1>>, <<1, 3>>, <<3, 3>>} :
          SaveResult(ids[1], ids[2])
    \/ \E result_id \in 1..MaxResults, user_id \in UserIds :
          DeleteUserResult(result_id, user_id)
    \/ \E userId \in UserIds \cup {3} : GetUserHistory(userId)

SpecResults == InitResults /\ [][NextResults]_vars

\* results are saved and looked up by id, with and without a userId
NextLookup ==
    \/ \E user_id \in UserIds : SaveResult(user_id, 1)
    \/ \E resultId \in 1..MaxResults, given \in BOOLEAN, userId \in UserIds \cup {3} :
          GetResultById(resultId, given, userId)

SpecLookup == InitResults /\ [][NextLookup]_vars

-----------------------------------------------------------------------------
(* register: handlers/auth.ts holds only its placeholder declaration, which *)
(* stores nothing and answers every call with success; the handler is       *)
(* modelled from what its tests and the schema of the users table say.      *)

\* (mutant) the e-mail is not looked up before the insert
register_Unchecked(input, userRows) ==
    [success |-> TRUE,
     user |-> [id |-> Cardinality(userRows) + 1, name |-> input.name, email |-> input.email],
     message |-> "User registered successfully"]

\* the AuthResponse of register(input) on a users table with these rows
register(input, userRows) ==
    IF \E u \in userRows : u.email = input.email
    THEN [success |-> FALSE, user |-> Undefined,
          message |-> "User with this email already exists"]
    ELSE [success |-> TRUE,
          user |-> [id |-> Cardinality(userRows) + 1, name |-> input.name,
                    email |-> input.email],
          message |-> "User registered successfully"]

\* a caller awaits register({ name, email, password }); a successful call has
\* stored the user, the password hashed
Register(name, email) ==
    LET input == [name |-> name, email |-> email, password |-> "password123"]
        response == register(input, users)
    IN  /\ reply' = Asked("register", input, Returned(response))
        /\ users' = IF response.success
                    THEN users \cup {InsertedRow(response.user.id,
                                        [input EXCEPT !.password = "hash of " \o @])}
                    ELSE users
        /\ UNCHANGED <<calculators, results, nextResultId, clock>>
        /\ UNCHANGED <<calcVars, validatorVars, summaryVars, appVars, webVars>>

\* the database is empty or holds the seeded test user
InitRegister ==
    /\ users \in {{}, {InsertedRow(1, testUserData)}}
    /\ calculators = {}
    /\ results = {}
    /\ nextResultId = 1
    /\ clock = 0
    /\ reply = NotCalled
    /\ AppIdle
    /\ CalcIdle
    /\ ValidatorsIdle
    /\ SummaryIdle

NextRegister ==
    \E name \in {"Test User", "Another User"},
       email \in {"test@example.com", "test2@example.com", "farmer@example.com"} :
          Register(name, email)

SpecRegister == InitRegister /\ [][NextRegister]_vars

-----------------------------------------------------------------------------
(* handlers/calculators.ts: createCalculator and searchCalculators *)

\* the calculators table holds at most this many rows
MaxCalculators == 3

\* the values createCalculator is called with: three of the seeded
\* calculators, one whose texts differ from a query in letter case only, and
\* one that has the name and the category of a seeded one
CalculatorInputs ==
    << initialCalculators[1], initialCalculators[2], initialCalculators[5],
       [name |-> "chicken coop Size", slug |-> "chicken-coop-size",
        description |-> "Space per BIRD on the FARM",
        category |-> "livestock", unit_label |-> "m2", formula_key |-> "chicken-feed-daily"],
       [name |-> "Planting Cost", slug |-> "planting-cost-2",
        description |-> "Seed and labour", category |-> "farming",
        unit_label |-> "Rp", formula_key |-> "planting-cost"] >>

\* the queries searchCalculators is called with
SearchQueries == {"", "  ", "farm", " FARM\t", "Chicken", "cost ", "e", "live stock"}

\* the place of a value in pgEnum('calculator_category', ...)
CategoryOrder(category) == IF category = "farming" THEN 1 ELSE 2

\* the characters of the stored names, by ascending code
NameChars == " ABCDEFGHIJKLMNOPQRSTUVWXYZabcdefghijklmnopqrstuvwxyz"

\* the rank of a character of a name (0: the string has ended)
CodeOf(c) == IF c = "" THEN 0 ELSE CHOOSE i \in 1..Len(NameChars) : CharAt(NameChars, i) = c

\* a < b for two text values: the first character in which they differ
\* decides, and a text sorts before the texts it begins
RECURSIVE TextLess(_, _)
TextLess(a, b) ==
    IF b = "" THEN FALSE
    ELSE IF a = "" THEN TRUE
    ELSE IF CharAt(a, 1) = CharAt(b, 1)
         THEN TextLess(Slice(a, 2, Len(a)), Slice(b, 2, Len(b)))
         ELSE CodeOf(CharAt(a, 1)) < CodeOf(CharAt(b, 1))

\* ORDER BY category ASC, name ASC: every order of the rows in which no row
\* stands before one that sorts lower; rows equal in both come in any order
Ascending(rows) ==
    {order \in [1..Cardinality(rows) -> rows] :
        /\ \A i, j \in 1..Cardinality(rows) : i # j => order[i] # order[j]
        /\ \A i, j \in 1..Cardinality(rows) :
              i < j =>
                  /\ CategoryOrder(order[i].category) <= CategoryOrder(order[j].category)
                  /\ order[i].category = order[j].category =>
                         ~ TextLess(order[j].name, order[i].name)}

\* (mutant) the query is not trimmed
searchCalculators_Untrimmed(query, allResults) ==
    LET lowercaseQuery == ToLowerCase(query)
        matches(calc) ==
            \/ Contains(ToLowerCase(calc.name), lowercaseQuery)
            \/ Contains(ToLowerCase(calc.description), lowercaseQuery)
            \/ Contains(ToLowerCase(calc.category), lowercaseQuery)
    IN  SelectSeq(allResults, matches)

\* searchCalculators(query), the select having given allResults
searchCalculators(query, allResults) ==
    LET lowercaseQuery == ToLowerCase(Trim(query))
        matches(calc) ==
            \/ Contains(ToLowerCase(calc.name), lowercaseQuery)
            \/ Contains(ToLowerCase(calc.description), lowercaseQuery)
            \/ Contains(ToLowerCase(calc.category), lowercaseQuery)
    IN  SelectSeq(allResults, matches)

\* a caller awaits createCalculator(input); the insert throws when a row has
\* the slug (the serial value a failed insert uses up is not modelled)
CreateCalculator(i) ==
    LET input == CalculatorInputs[i]
        row == InsertedRow(Cardinality(calculators) + 1, input)
    IN  /\ Cardinality(calculators) < MaxCalculators
        /\ IF \E c \in calculators : c.slug = input.slug
           THEN /\ reply' = Asked("createCalculator", input,
                                  Thrown(PlainError("duplicate key value violates unique constraint")))
                /\ UNCHANGED calculators
           ELSE /\ reply' = Asked("createCalculator", input, Returned(row))
                /\ calculators' = calculators \cup {row}
        /\ UNCHANGED <<users, results, nextResultId, clock>>
        /\ UNCHANGED <<calcVars, validatorVars, summaryVars, appVars, webVars>>

\* a caller awaits searchCalculators(query)
SearchCalculators(query) ==
    /\ \E allResults \in Ascending(calculators) :
          reply' = Asked("searchCalculators", query,
                         Returned(searchCalculators(query, allResults)))
    /\ UNCHANGED <<users, calculators, results, nextResultId, clock>>
    /\ UNCHANGED <<calcVars, validatorVars, summaryVars, appVars, webVars>>

\* the calculators table is empty, as createDB leaves it
InitSearch ==
    /\ users = {}
    /\ calculators = {}
    /\ results = {}
    /\ nextResultId = 1
    /\ clock = 0
    /\ reply = NotCalled
    /\ AppIdle
    /\ CalcIdle
    /\ ValidatorsIdle
    /\ SummaryIdle

NextSearch ==
    \/ \E i \in 1..Len(CalculatorInputs) : CreateCalculator(i)
    \/ \E query \in SearchQueries : SearchCalculators(query)

SpecSearch == InitSearch /\ [][NextSearch]_vars

-----------------------------------------------------------------------------
(* index.ts: the results routes behind authenticatedProcedure. The store is  *)
(* the one of InitResults; the values saved have at most three decimals.      *)

\* the most results saved through the routes
MaxSaved == 2

\* new TRPCError({ code: 'UNAUTHORIZED', message: 'Authentication required' })
Unauthorized ==
    [name |-> "TRPCError", code |-> "UNAUTHORIZED",
     message |-> "Authentication required", issues |-> <<>>]

\* the Context of a request: createContext gives { userId: undefined }; a
\* caller of the router can give a userId (-1 stands for none)
Context(userId) == [userId |-> IF userId < 0 THEN Undefined ELSE Num(userId, 1)]

\* (mutant) the middleware lets every request through
authenticatedProcedure_Open(ctx) == TRUE

\* authenticatedProcedure: does the middleware call opts.next(); it throws
\* Unauthorized when it does not
authenticatedProcedure(ctx) == Truthy(ctx.userId)

\* the middleware has thrown: no resolver runs
Refused(route, ctx, body) ==
    /\ request' = [route |-> route, ctx |-> ctx, body |-> body]
    /\ reply' = Asked("authenticatedProcedure", ctx, Thrown(Unauthorized))
    /\ UNCHANGED <<users, calculators, results, nextResultId, clock>>

\* date.toISOString() of the time of a clock tick
ToISOString(t) == "2024-01-01T00:00:0" \o NatToString(t) \o ".000Z"

\* exportUserHistoryCSV(userId), getUserHistory having given this history
exportUserHistoryCSV(history) ==
    LET csvHeader == "Date,Calculator,Input Summary,Result,Unit\n"
        row(item) ==
            "\"" \o ToISOString(item.created_at) \o "\",\"" \o item.calculator_name
            \o "\",\"" \o item.input_summary \o "\",\"" \o String(item.result_value)
            \o "\",\"" \o item.unit_label \o "\""
        csvRows == Join([i \in DOMAIN history |->
                            (IF i = 1 THEN "" ELSE "\n") \o row(history[i])])
    IN  Returned(csvHeader \o csvRows)

\* results.save: the body is parsed with the schema that has no user_id, and
\* saveResult gets { ...input, user_id: ctx.userId }
ResultsSave(ctxUserId, bodyUserId, calculator_id) ==
    LET ctx == Context(ctxUserId)
        body == CreateResultInput(bodyUserId, calculator_id)
        parsed == [k \in DOMAIN body \ {"user_id"} |-> body[k]]
        input == parsed @@ [user_id |-> ctx.userId.num]
    IN  /\ IF ~authenticatedProcedure(ctx) THEN Refused("save", ctx, body)
           ELSE /\ nextResultId <= MaxSaved
                /\ request' = [route |-> "save", ctx |-> ctx, body |-> body]
                /\ \E elapsed \in {0, 1} :
                      LET saved == saveResult(input, users, calculators, nextResultId,
                                              clock + elapsed)
                      IN  /\ reply' = Asked("saveResult", input, saved)
                          /\ IF saved.status = "returned"
                             THEN /\ results' = results \cup
                                         {ResultRow(nextResultId, input, clock + elapsed)}
                                  /\ nextResultId' = nextResultId + 1
                                  /\ clock' = clock + elapsed
                             ELSE UNCHANGED <<results, nextResultId, clock>>
                /\ UNCHANGED <<users, calculators>>
        /\ UNCHANGED <<page, calcVars, validatorVars, summaryVars, appVars>>

\* results.getHistory: getUserHistory(ctx.userId)
ResultsGetHistory(ctxUserId) ==
    LET ctx == Context(ctxUserId)
    IN  /\ IF ~authenticatedProcedure(ctx) THEN Refused("getHistory", ctx, Undefined)
           ELSE /\ request' = [route |-> "getHistory", ctx |-> ctx, body |-> Undefined]
                /\ \E order \in Descending(HistoryRows(ctx.userId.num, results, calculators)) :
                      reply' = Asked("getUserHistory", ctx.userId.num,
                                     getUserHistory(order, locale))
                /\ UNCHANGED <<users, calculators, results, nextResultId, clock>>
        /\ UNCHANGED <<page, calcVars, validatorVars, summaryVars, appVars>>

\* results.delete: the body is parsed with the schema that has no user_id, and
\* deleteUserResult gets { ...input, user_id: ctx.userId }
ResultsDelete(ctxUserId, bodyUserId, result_id) ==
    LET ctx == Context(ctxUserId)
        body == [result_id |-> result_id, user_id |-> bodyUserId]
        input == [result_id |-> body.result_id, user_id |-> ctx.userId.num]
    IN  /\ IF ~authenticatedProcedure(ctx) THEN Refused("delete", ctx, body)
           ELSE /\ request' = [route |-> "delete", ctx |-> ctx, body |-> body]
                /\ results' = results \ DeletedRows(input, results)
                /\ reply' = Asked("deleteUserResult", input, deleteUserResult(input, results))
                /\ UNCHANGED <<users, calculators, nextResultId, clock>>
        /\ UNCHANGED <<page, calcVars, validatorVars, summaryVars, appVars>>

\* results.exportCSV: exportUserHistoryCSV(ctx.userId)
ResultsExportCSV(ctxUserId) ==
    LET ctx == Context(ctxUserId)
    IN  /\ IF ~authenticatedProcedure(ctx) THEN Refused("exportCSV", ctx, Undefined)
           ELSE /\ request' = [route |-> "exportCSV", ctx |-> ctx, body |-> Undefined]
                /\ \E order \in Descending(HistoryRows(ctx.userId.num, results, calculators)) :
                      reply' = Asked("exportUserHistoryCSV", ctx.userId.num,
                                     exportUserHistoryCSV(getUserHistory(order, locale).value))
                /\ UNCHANGED <<users, calculators, results, nextResultId, clock>>
        /\ UNCHANGED <<page, calcVars, validatorVars, summaryVars, appVars>>

\* results.getById: getResultById(input, ctx.userId), the body being a number
ResultsGetById(ctxUserId, resultId) ==
    LET ctx == Context(ctxUserId)
        input == [resultId |-> resultId, given |-> TRUE, userId |-> ctx.userId.num]
    IN  /\ IF ~authenticatedProcedure(ctx) THEN Refused("getById", ctx, Num(resultId, 1))
           ELSE /\ request' = [route |-> "getById", ctx |-> ctx, body |-> Num(resultId, 1)]
                /\ \E got \in getResultById(resultId, TRUE, ctx.userId.num, results) :
                      reply' = Asked("getResultById", input, got)
                /\ UNCHANGED <<users, calculators, results, nextResultId, clock>>
        /\ UNCHANGED <<page, calcVars, validatorVars, summaryVars, appVars>>

\* requests with no userId in the context, with the userId 0 and with the id
\* of a user; bodies that name a user or an id no user has, a calculator or an
\* id no calculator has
NextRoutes ==
    \/ \E ctxUserId \in -1..2, bodyUserId \in {1, 3}, calculator_id \in {1, 3} :
          ResultsSave(ctxUserId, bodyUserId, calculator_id)
    \/ \E ctxUserId \in -1..2 : ResultsGetHistory(ctxUserId)
    \/ \E ctxUserId \in -1..2, bodyUserId \in {1, 3}, result_id \in 1..MaxSaved :
          ResultsDelete(ctxUserId, bodyUserId, result_id)
    \/ \E ctxUserId \in -1..2 : ResultsExportCSV(ctxUserId)
    \/ \E ctxUserId \in -1..2, resultId \in 1..MaxSaved : ResultsGetById(ctxUserId, resultId)

SpecRoutes == InitResults /\ [][NextRoutes]_vars

-----------------------------------------------------------------------------
(* client/src/components/CalculatorPage.tsx: the page of the fertilizer      *)
(* calculator. A handler sees the state of the render it was created in;     *)
(* what follows an await runs when the promise settles.                      *)

\* the most clicks on Save Result
MaxSaves == 2

\* initializeDefaultInputs(formulaKey): the inputs it sets (none for a key
\* that has no defaults)
initializeDefaultInputs(key) ==
    [f \in AllFields |->
        CASE key = "fertilizer-requirement" /\ f = "area_ha" -> Num(0, 1)
          [] key = "fertilizer-requirement" /\ f = "dose_kg_per_ha" -> Num(100, 1)
          [] key = "chicken-feed-daily" /\ f = "chicken_count" -> Num(0, 1)
          [] key = "chicken-feed-daily" /\ f = "feed_kg_per_chicken_per_day" -> Num(12, 100)
          [] key = "livestock-medicine-dosage"
                /\ f \in {"weight_kg", "dose_mg_per_kg", "concentration_mg_per_ml"} -> Num(0, 1)
          [] key = "harvest-estimation" /\ f = "area_ha" -> Num(0, 1)
          [] key = "harvest-estimation" /\ f = "yield_ton_per_ha" -> Num(5, 1)
          [] key = "planting-cost" /\ f = "area_ha" -> Num(0, 1)
          [] key = "planting-cost" /\ f = "cost_rp_per_ha" -> Num(1000000, 1)
          [] OTHER -> Undefined]

\* <Input type="number" required min step value={v || ''}>: does the browser
\* let the form be submitted with this value (not empty, at least min, a
\* whole number of steps from min)
InputValid(v, min, step) ==
    /\ Truthy(v)
    /\ v.num * min.den >= min.num * v.den
    /\ ((v.num * min.den - min.num * v.den) * step.den) % (v.den * min.den * step.num) = 0

\* renderInputFields('fertilizer-requirement', ...): area_ha has min 0.1 and
\* step 0.1, dose_kg_per_ha has min 1 and step 1
FormValid(in) ==
    /\ InputValid(in["area_ha"], Num(1, 10), Num(1, 10))
    /\ InputValid(in["dose_kg_per_ha"], Num(1, 1), Num(1, 1))

\* the texts typed into a field
TypedValues == {"1", "2", ""}

\* the component has mounted and loadCalculator has settled: the calculator
\* of the slug is loaded or was not found; the visitor is logged in or not
\* (while isLoading the form is not rendered)
OpenPage(found, user) ==
    /\ page = NoPage
    /\ page' = [open |-> TRUE, user |-> user,
                calculator |-> IF found THEN InsertedRow(1, initialCalculators[1]) ELSE Null,
                inputs |-> IF found THEN initializeDefaultInputs(initialCalculators[1].formula_key)
                           ELSE EmptyInputs,
                result |-> Null,
                error |-> IF found THEN Null ELSE Str("Calculator not found"),
                isCalculating |-> FALSE, isSaving |-> FALSE, saveSuccess |-> FALSE,
                inFlight |-> Null, saved |-> Null, timers |-> 0, saves |-> 0]
    /\ UNCHANGED <<request, calcVars, validatorVars, summaryVars, resultsVars, appVars>>

\* handleInputChange(field, value): the visitor types into a field of the form
HandleInputChange(field, value) ==
    LET numericValue == IF Truthy(parseFloat(value)) THEN parseFloat(value) ELSE Num(0, 1)
    IN  /\ page.open
        /\ page.calculator # Null
        /\ page' = [page EXCEPT !.inputs = [@ EXCEPT ![field] = numericValue],
                                !.result = Null,
                                !.error = Null,
                                !.saveSuccess = FALSE]
        /\ UNCHANGED <<request, calcVars, validatorVars, summaryVars, resultsVars, appVars>>

\* handleCalculate up to its await: the form is submitted (the button is
\* disabled while isCalculating, the browser validates the fields) and the
\* request leaves with the inputs of this render
HandleCalculate ==
    /\ page.open
    /\ page.calculator # Null
    /\ ~page.isCalculating
    /\ FormValid(page.inputs)
    /\ page' = [page EXCEPT !.isCalculating = TRUE,
                            !.error = Null,
                            !.saveSuccess = FALSE,
                            !.inFlight = page.inputs]
    /\ UNCHANGED <<request, calcVars, validatorVars, summaryVars, resultsVars, appVars>>

\* handleCalculate after its await: the mutation of calculations.calculate has
\* settled with what calculate(formulaKey, inputs) gave, or the request failed
CalculateSettled(settled) ==
    /\ page.open
    /\ page.inFlight # Null
    /\ LET response == IF settled THEN calculate(page.calculator.formula_key, page.inFlight)
                       ELSE Thrown(PlainError("Failed to fetch"))
       IN  page' = [page EXCEPT
                      !.result = IF response.status = "returned" THEN response.value ELSE @,
                      !.error = IF response.status = "returned" THEN @
                                ELSE Str(response.error.message),
                      !.isCalculating = FALSE,
                      !.inFlight = Null]
    /\ UNCHANGED <<request, calcVars, validatorVars, summaryVars, resultsVars, appVars>>

\* handleSaveResult up to its await: Save Result is shown with a result to a
\* logged-in visitor and is disabled while isSaving; saved is what
\* results.save is called with
HandleSaveResult ==
    /\ page.open
    /\ page.calculator # Null
    /\ page.result # Null
    /\ page.user
    /\ ~page.isSaving
    /\ page.saves < MaxSaves
    /\ page' = [page EXCEPT
                  !.isSaving = TRUE,
                  !.saves = @ + 1,
                  !.saved = [calculator_id |-> page.calculator.id,
                             input_json |-> page.inputs,
                             result_value |-> page.result.result_value,
                             unit_label |-> page.result.unit_label]]
    /\ UNCHANGED <<request, calcVars, validatorVars, summaryVars, resultsVars, appVars>>

\* handleSaveResult after its await: the mutation settled or failed; a
\* success starts the timer that takes the notice away
SaveSettled(settled) ==
    /\ page.open
    /\ page.isSaving
    /\ page' = [page EXCEPT
                  !.saveSuccess = IF settled THEN TRUE ELSE @,
                  !.timers = IF settled THEN @ + 1 ELSE @,
                  !.error = IF settled THEN @
                            ELSE Str("Failed to save result. Please try again."),
                  !.isSaving = FALSE]
    /\ UNCHANGED <<request, calcVars, validatorVars, summaryVars, resultsVars, appVars>>

\* setTimeout(() => setSaveSuccess(false), 3000) fires
SaveSuccessTimeout ==
    /\ page.open
    /\ page.timers > 0
    /\ page' = [page EXCEPT !.saveSuccess = FALSE, !.timers = @ - 1]
    /\ UNCHANGED <<request, calcVars, validatorVars, summaryVars, resultsVars, appVars>>

\* the page has not been opened
InitPage ==
    /\ AppIdle
    /\ ResultsIdle
    /\ CalcIdle
    /\ ValidatorsIdle
    /\ SummaryIdle

NextPage ==
    \/ \E found \in BOOLEAN, user \in BOOLEAN : OpenPage(found, user)
    \/ \E field \in FieldsOf("fertilizer-requirement"), value \in TypedValues :
          HandleInputChange(field, value)
    \/ HandleCalculate
    \/ \E settled \in BOOLEAN : CalculateSettled(settled)
    \/ HandleSaveResult
    \/ \E settled \in BOOLEAN : SaveSettled(settled)
    \/ SaveSuccessTimeout

SpecPage == InitPage /\ [][NextPage]_vars

-----------------------------------------------------------------------------
(* Claims about the results table *)

DeleteAsked == reply.status = "asked" /\ reply.op = "deleteUserResult"

\* the rows with the id and the owner that the delete call named
NamedRows(rows, input) ==
    {r \in rows : r.id = input.result_id /\ r.user_id = input.user_id}

\* C19: deleteUserResult({result_id, user_id}) removes a row only if the row
\* has that id and belongs to that user; it returns true exactly when a row was
\* removed; for an id that is not there or that belongs to another user it
\* returns false and leaves the table as it was.
C19_DeleteOnlyOwnRow_Action ==
    [][ (reply'.status = "asked" /\ reply'.op = "deleteUserResult") =>
           /\ results' \subseteq results
           /\ \A r \in results \ results' :
                 r.id = reply'.input.result_id /\ r.user_id = reply'.input.user_id
           /\ reply'.outcome.status = "returned"
           /\ reply'.outcome.value = (results' # results)
           /\ NamedRows(results, reply'.input) = {}
                 => reply'.outcome.value = FALSE /\ results' = results
           /\ NamedRows(results, reply'.input) # {}
                 => reply'.outcome.value = TRUE /\ NamedRows(results', reply'.input) = {} ]_vars

\* a user asked to delete the row of another user: false, and the row is there
C19_Witness ==
    /\ DeleteAsked
    /\ reply.outcome = Returned(FALSE)
    /\ \E r \in results : r.id = reply.input.result_id /\ r.user_id # reply.input.user_id

\* the removing side of C19 happens as well
C19_RemovedWitness ==
    /\ DeleteAsked
    /\ reply.outcome = Returned(TRUE)
    /\ results # {}
    /\ \A r \in results : r.id # reply.input.result_id

HistoryAsked == reply.status = "asked" /\ reply.op = "getUserHistory"

\* the stored row an item of the history stands for
RowOf(item) == CHOOSE r \in results : r.id = item.id

CalculatorOf(row) == CHOOSE c \in calculators : c.id = row.calculator_id

\* the documented summary of the stored inputs of a row
DocumentedSummary(row) ==
    LET text(f) ==
            IF row.input_json[f] = Undefined THEN "undefined"
            ELSE IF f = "cost_rp_per_ha" THEN GroupedForLocale(row.input_json[f], locale)
            ELSE Verbatim(row.input_json[f])
    IN  DocumentedTemplate(CalculatorOf(row).slug, text, FALSE)

\* C20: getUserHistory(u) returns exactly the stored results of user u, none
\* of another user and none missing, newest first by created_at, each with the
\* name and slug of its calculator and the input summary for that slug.
C20_HistoryIsOwnRowsNewestFirst ==
    HistoryAsked =>
        LET items == reply.outcome.value
        IN  /\ reply.outcome.status = "returned"
            /\ {items[i].id : i \in DOMAIN items}
                  = {r.id : r \in {x \in results : x.user_id = reply.input}}
            /\ \A i, j \in DOMAIN items : i # j => items[i].id # items[j].id
            /\ \A i, j \in DOMAIN items :
                  i < j => items[i].created_at >= items[j].created_at
            /\ \A i \in DOMAIN items :
                  /\ items[i].created_at = RowOf(items[i]).created_at
                  /\ items[i].calculator_name = CalculatorOf(RowOf(items[i])).name
                  /\ items[i].calculator_slug = CalculatorOf(RowOf(items[i])).slug
                  /\ items[i].input_summary = DocumentedSummary(RowOf(items[i]))

\* the user has an older and a newer result of two calculators, another user
\* has a result too, and the history lists the user's two, the newer first
C20_Witness ==
    /\ HistoryAsked
    /\ reply.input = 1
    /\ \E r \in results : r.user_id = 2
    /\ Len(reply.outcome.value) = 2
    /\ reply.outcome.value[1].created_at > reply.outcome.value[2].created_at
    /\ reply.outcome.value[1].calculator_slug = "planting-cost"
    /\ reply.outcome.value[1].input_summary = "Area: 2 ha, Cost per ha: Rp 1,500,000"
    /\ reply.outcome.value[2].calculator_slug = "fertilizer-requirement"
    /\ reply.outcome.value[2].input_summary = "Area: 2 ha, Dose: 500 kg/ha"

ResultAsked == reply.status = "asked" /\ reply.op = "getResultById"

\* the stored rows a getResultById call may give: the id is resultId and, when
\* a userId was given, the owner is that user
RowsAskedFor ==
    {r \in results : /\ r.id = reply.input.resultId
                     /\ reply.input.given => r.user_id = reply.input.userId}

\* C21: getResultById(resultId, userId) returns the stored result only when it
\* exists and, if userId is given, belongs to that user; it returns null for an
\* id that is not there and for a result of another user, and never a row whose
\* id differs from resultId.
C21_ResultByIdOnlyOwnRow ==
    ResultAsked =>
        /\ reply.outcome.status = "returned"
        /\ RowsAskedFor = {} <=> reply.outcome.value = Null
        /\ reply.outcome.value # Null =>
              /\ reply.outcome.value.id = reply.input.resultId
              /\ reply.input.given => reply.outcome.value.user_id = reply.input.userId
              /\ \E r \in RowsAskedFor :
                    /\ r.user_id = reply.outcome.value.user_id
                    /\ r.calculator_id = reply.outcome.value.calculator_id
                    /\ r.input_json = reply.outcome.value.input_json
                    /\ r.unit_label = reply.outcome.value.unit_label
                    /\ r.created_at = reply.outcome.value.created_at

\* a user asked for the result of another user, which is there: null
C21_Witness ==
    /\ ResultAsked
    /\ reply.input.given
    /\ reply.outcome.value = Null
    /\ \E r \in results : r.id = reply.input.resultId /\ r.user_id # reply.input.userId

\* the returning side of C21 happens as well: the owner gets the row
C21_ReturnedWitness ==
    /\ ResultAsked
    /\ reply.input.given
    /\ reply.outcome.value # Null
    /\ reply.outcome.value.id = reply.input.resultId
    /\ reply.outcome.value.user_id = reply.input.userId

\* C22: saveResult fails with "User with ID {id} not found" when the user does
\* not exist and, the user existing, with "Calculator with ID {id} not found"
\* when the calculator does not exist, and inserts no row in both cases; so
\* every row of the results table references an existing user and an existing
\* calculator.
C22_SaveChecksReferences_Action ==
    [][ /\ (reply'.status = "asked" /\ reply'.op = "saveResult") =>
              /\ (\A u \in users : u.id # reply'.input.user_id) =>
                    /\ reply'.outcome = Thrown(PlainError(
                           "User with ID " \o NatToString(reply'.input.user_id)
                              \o " not found"))
                    /\ results' = results
              /\ ( /\ \E u \in users : u.id = reply'.input.user_id
                   /\ \A c \in calculators : c.id # reply'.input.calculator_id ) =>
                    /\ reply'.outcome = Thrown(PlainError(
                           "Calculator with ID " \o NatToString(reply'.input.calculator_id)
                              \o " not found"))
                    /\ results' = results
        /\ \A r \in results' :
              /\ \E u \in users' : u.id = r.user_id
              /\ \E c \in calculators' : c.id = r.calculator_id ]_vars

\* a save for a calculator that is not there was refused with the message, the
\* table holding rows already
C22_Witness ==
    /\ reply.status = "asked"
    /\ reply.op = "saveResult"
    /\ reply.input.user_id = 1
    /\ reply.outcome = Thrown(PlainError("Calculator with ID 3 not found"))
    /\ results # {}

\* the other message of C22 happens as well, also when both are missing
C22_UserWitness ==
    /\ reply.status = "asked"
    /\ reply.op = "saveResult"
    /\ reply.input.calculator_id = 3
    /\ reply.outcome = Thrown(PlainError("User with ID 3 not found"))

\* the input a stored row was saved from (the callers' inputs are determined
\* by the user and the calculator)
SavedInput(row) == CreateResultInput(row.user_id, row.calculator_id)

\* the fields of a result that C23 compares with the input
SameAsInput(result, input) ==
    /\ result.result_value = input.result_value
    /\ result.input_json = input.input_json
    /\ result.unit_label = input.unit_label
    /\ result.user_id = input.user_id
    /\ result.calculator_id = input.calculator_id

\* C23: for every successful saveResult(input), the returned result and every
\* later getResultById / getUserHistory read of it have result_value numerically
\* equal to input.result_value, and input_json, unit_label, user_id and
\* calculator_id equal to the inputs.
C23_SaveReadRoundTrip ==
    /\ ( /\ reply.status = "asked"
         /\ reply.op = "saveResult"
         /\ reply.outcome.status = "returned" )
          => SameAsInput(reply.outcome.value, reply.input)
    /\ (ResultAsked /\ reply.outcome.value # Null)
          => SameAsInput(reply.outcome.value, SavedInput(reply.outcome.value))
    /\ HistoryAsked =>
          \A i \in DOMAIN reply.outcome.value :
             /\ reply.outcome.value[i].result_value
                   = SavedInput(RowOf(reply.outcome.value[i])).result_value
             /\ reply.outcome.value[i].unit_label
                   = SavedInput(RowOf(reply.outcome.value[i])).unit_label

\* the five calculators of the seed, one for each known slug
ExactlyTheFive(rows) ==
    /\ Cardinality(rows) = 5
    /\ \A key \in KnownKeys :
          /\ Cardinality({c \in rows : c.slug = key}) = 1
          /\ \A c \in rows : c.slug = key => c.formula_key = key

\* the test user and no other
ExactlyTheTestUser(rows) ==
    /\ Cardinality(rows) = 1
    /\ \A u \in rows : u.name = "Test User" /\ u.email = "test@example.com"

\* C24: seeding is idempotent: after any number (>= 1) of runSeeds,
\* seedCalculators and seedTestUser runs, one after the other, on a database
\* that was empty, the calculators table holds exactly the five calculators
\* (one for each known slug, formula_key equal to slug) once seedCalculators
\* has run, the users table exactly one test user once seedTestUser has run,
\* and every run completes without error.
C24_SeedingIdempotent_Action ==
    [][ /\ seed'.at # "thrown"
        /\ calculators \subseteq calculators'
        /\ users \subseteq users'
        /\ seed'.at = "done" =>
              /\ calculators' = {} \/ ExactlyTheFive(calculators')
              /\ users' = {} \/ ExactlyTheTestUser(users')
              /\ seed'.op \in {"runSeeds", "seedCalculators"} => calculators' # {}
              /\ seed'.op \in {"runSeeds", "seedTestUser"} => users' # {} ]_vars

\* a third run has completed on the seeded database
C24_Witness ==
    /\ seed.at = "done"
    /\ seed.runs = 3
    /\ seed.op = "runSeeds"
    /\ ExactlyTheFive(calculators)
    /\ ExactlyTheTestUser(users)

RegisterAsked == reply.status = "asked" /\ reply.op = "register"

SearchAsked == reply.status = "asked" /\ reply.op = "searchCalculators"

\* the stored calculators one of whose name, description and category holds
\* the needle, letter case apart
HoldingText(needle) ==
    {c \in calculators :
        \E text \in {c.name, c.description, c.category} :
            Contains(ToLowerCase(text), ToLowerCase(needle))}

\* C26: searchCalculators(query) returns exactly the stored calculators whose
\* name, description or category contains the trimmed query case-insensitively,
\* each once, ordered by category then name; an empty or whitespace-only query
\* returns all calculators.
C26_SearchFiltersAndOrders ==
    SearchAsked =>
        LET found == reply.outcome.value
        IN  /\ reply.outcome.status = "returned"
            /\ {found[i] : i \in 1..Len(found)} = HoldingText(Trim(reply.input))
            /\ Len(found) = Cardinality(HoldingText(Trim(reply.input)))
            /\ \A i, j \in 1..Len(found) :
                  i < j =>
                      \/ CategoryOrder(found[i].category) < CategoryOrder(found[j].category)
                      \/ /\ found[i].category = found[j].category
                         /\ ~ TextLess(found[j].name, found[i].name)
            /\ (\A k \in 1..Len(reply.input) : IsWhitespace(CharAt(reply.input, k))) =>
                  Len(found) = Cardinality(calculators)

\* a padded query in capitals found a farming row and then the livestock row
\* whose description holds the word in capitals, and left a row out
C26_Witness ==
    /\ SearchAsked
    /\ reply.input = " FARM\t"
    /\ Len(reply.outcome.value) = 2
    /\ reply.outcome.value[1].category = "farming"
    /\ reply.outcome.value[2].slug = "chicken-coop-size"
    /\ Cardinality(calculators) = 3

\* a whitespace-only query returned the whole table
C26_AllWitness ==
    /\ SearchAsked
    /\ reply.input = "  "
    /\ Len(reply.outcome.value) = 3

\* the handler a results route calls
HandlerOf(route) ==
    CASE route = "save" -> "saveResult"
      [] route = "getHistory" -> "getUserHistory"
      [] route = "delete" -> "deleteUserResult"
      [] route = "exportCSV" -> "exportUserHistoryCSV"
      [] route = "getById" -> "getResultById"
      [] OTHER -> "none"

\* the user the handler that answered was called for
HandlerUserId(asked) ==
    CASE asked.op \in {"saveResult", "deleteUserResult"} -> asked.input.user_id
      [] asked.op \in {"getUserHistory", "exportUserHistoryCSV"} -> asked.input
      [] asked.op = "getResultById" -> asked.input.userId
      [] OTHER -> -1

\* C27: every results route (save, getHistory, delete, exportCSV, getById)
\* runs its handler only when the request context carries a userId, otherwise
\* it fails with UNAUTHORIZED before any store access (no handler is called,
\* the store stays as it is); and the user_id the handler acts on, and the
\* owner of every row it adds or removes, is the context's userId, never the
\* one of the request body.
C27_RoutesActForContextUser_Action ==
    [][ request'.route # "none" =>
          /\ reply'.status = "asked"
          /\ reply'.op \in {HandlerOf(request'.route), "authenticatedProcedure"}
          /\ reply'.op = HandlerOf(request'.route) =>
                /\ request'.ctx.userId.k = "number"
                /\ HandlerUserId(reply') = request'.ctx.userId.num
                /\ \A r \in (results' \ results) \cup (results \ results') :
                      r.user_id = request'.ctx.userId.num
          /\ request'.ctx.userId.k = "undefined" =>
                /\ reply'.op = "authenticatedProcedure"
                /\ reply'.outcome = Thrown(Unauthorized)
                /\ UNCHANGED <<users, calculators, results, nextResultId, clock>>
      ]_vars

\* a save whose body named user 1 was answered for user 2, the context's
\* user, and the row belongs to user 2
C27_Witness ==
    /\ request.route = "save"
    /\ request.body.user_id = 1
    /\ request.ctx.userId = Num(2, 1)
    /\ reply.op = "saveResult"
    /\ reply.outcome.status = "returned"
    /\ \E r \in results : r.id = reply.outcome.value.id /\ r.user_id = 2

\* a delete without a userId was refused while the row it named is stored
C27_RefusedWitness ==
    /\ request.route = "delete"
    /\ request.ctx.userId = Undefined
    /\ reply.outcome = Thrown(Unauthorized)
    /\ \E r \in results : r.id = request.body.result_id /\ r.user_id = request.body.user_id

\* the result calculate gives for these inputs of the fertilizer calculator
ResultOf(in) == calculate("fertilizer-requirement", in)

\* C28: on the calculator page, under every interleaving of input edits,
\* calculate requests and their responses, the displayed result is always the
\* result of the inputs currently in the form, and a saved result's input_json
\* is always the input set that produced its result_value.
C28_ResultIsOfCurrentInputs ==
    (page.open /\ page.calculator # Null) =>
        /\ page.result # Null => ResultOf(page.inputs) = Returned(page.result)
        /\ page.saved # Null =>
              /\ ResultOf(page.saved.input_json).status = "returned"
              /\ ResultOf(page.saved.input_json).value.result_value = page.saved.result_value

====
